---- MODULE Spec2Model ----
(***************************************************************************)
(* Grouped-commit planning and execution engine of committy's MCP server:  *)
(* classifyFile, formatMessage, the git collaborators (listChangedFiles,   *)
(* stageFiles, commit, push) and the commitGroupedChanges orchestrator.     *)
(* Strings are TLA+ strings; optional values (a TypeScript `T | undefined`) *)
(* are sequences of length 0 (undefined) or 1 (the value).                  *)
(***************************************************************************)
EXTENDS Integers, Sequences, FiniteSets, TLC

VARIABLES
    opts,          \* CommitGroupedChangesOptions as passed by the caller
    pc,            \* position of commitGroupedChanges
    repoValid,     \* repository: FALSE when git cannot work in repoPath
    repoStaged,    \* repository: paths `git diff --name-only --cached` lists
    repoUnstaged,  \* repository: paths `git diff --name-only` lists
    repoCommits,   \* repository: the commits created, each [sha, message, files]
    calls,         \* repository: the git processes run so far, in order
    all,           \* listChangedFiles(...).all
    groups,        \* GroupPlan[]
    gi,            \* index of the group the for-loop is at (1-based)
    commits,       \* CommitRecord[]
    errors,        \* string[]
    pushed,        \* let pushed
    result,        \* the resolved CommitGroupedChangesResult (None until returned)
    subject,       \* the input a pure function (classifyFile, formatMessage) is called on
    evals,         \* the calls of that function made so far: [arg, ret]
    request,       \* the MCP tool call being handled: [tool, input]
    cpc,           \* position of the tool handler
    spawned,       \* the committy processes spawned so far (their arguments)
    wrapped,       \* what runCommittyJson returned to the handler (None before)
    reply,         \* the text the tool handler returned (None before)
    child,         \* the spawned committy child process: its output, exit and events
    promise        \* runCommittyRaw's promise: text collected so far and its resolution

orchVars == <<opts, pc, repoValid, repoStaged, repoUnstaged, repoCommits, calls,
              all, groups, gi, commits, errors, pushed, result>>

pureVars == <<subject, evals>>

cliVars == <<request, cpc, spawned, wrapped, reply, child, promise>>

vars == <<orchVars, pureVars, cliVars>>

----------------------------------------------------------------------------
(* Optional values *)

None == <<>>
Some(v) == <<v>>
IsSome(o) == o # <<>>

\* `o ?? d` on an optional boolean
Nullish(o, d) == IF o = None THEN d ELSE o[1]

\* truthiness of an optional boolean (`if (o)`)
Truthy(o) == IF o = None THEN FALSE ELSE o[1]

\* `a || b` on strings: the empty string is falsy
OrStr(a, b) == IF a # "" THEN a ELSE b

OptBool == {None, Some(TRUE), Some(FALSE)}

----------------------------------------------------------------------------
(* String helpers used by the regular expressions of classifyFile *)

StartsWith(s, p) == Len(s) >= Len(p) /\ SubSeq(s, 1, Len(p)) = p

EndsWith(s, p) == Len(s) >= Len(p) /\ SubSeq(s, Len(s) - Len(p) + 1, Len(s)) = p

Upper == <<"A","B","C","D","E","F","G","H","I","J","K","L","M",
           "N","O","P","Q","R","S","T","U","V","W","X","Y","Z">>
Lower == <<"a","b","c","d","e","f","g","h","i","j","k","l","m",
           "n","o","p","q","r","s","t","u","v","w","x","y","z">>
Digits == {"0","1","2","3","4","5","6","7","8","9"}

UpperSet == {Upper[k] : k \in 1..26}
LowerSet == {Lower[k] : k \in 1..26}
LowerOf == [c \in UpperSet |-> Lower[CHOOSE k \in 1..26 : Upper[k] = c]]

\* case folding of one character, as the regex flag `i` compares ASCII letters
LowerCh(c) == IF c \in UpperSet THEN LowerOf[c] ELSE c

RECURSIVE LowerStr(_)
LowerStr(s) ==
    IF Len(s) = 0 THEN ""
    ELSE LowerCh(SubSeq(s, 1, 1)) \o LowerStr(SubSeq(s, 2, Len(s)))

\* the regex class \w
IsWordChar(c) == c \in UpperSet \/ c \in LowerSet \/ c \in Digits \/ c = "_"

IsWord(s) == Len(s) > 0 /\ \A k \in 1..Len(s) : IsWordChar(SubSeq(s, k, k))

\* /(^|\/)name$/ : the whole path, or its tail after a "/", is name
BasenameIs(f, name) == f = name \/ EndsWith(f, "/" \o name)

\* the positions where a path segment starts: (^|\/)
SegmentStarts(f) == {p \in 1..Len(f) : p = 1 \/ SubSeq(f, p - 1, p - 1) = "/"}

\* the text from position p to the end
From(f, p) == SubSeq(f, p, Len(f))

----------------------------------------------------------------------------
(* commit_groups.ts: classifyFile *)

ChangeGroupNames == <<"docs", "tests", "ci", "deps", "build", "chore", "code">>

\* file.replace(/^\.\/?/, ""): a leading "." and the "/" after it, if any
StripLeading(file) ==
    IF StartsWith(file, "./") THEN From(file, 3)
    ELSE IF StartsWith(file, ".") THEN From(file, 2)
    ELSE file

IsCi(f) == StartsWith(f, ".github/")

IsDocs(f) ==
    LET lf == LowerStr(f) IN
    \/ StartsWith(f, "docs/")
    \/ BasenameIs(lf, "readme.md")                     \* /(^|\/)README\.md$/i
    \/ EndsWith(lf, ".md")                             \* /\.mdx?$/i
    \/ EndsWith(lf, ".mdx")

IsTests(f) ==
    LET lf == LowerStr(f) IN
    \/ StartsWith(f, "tests/")
    \/ \E stem \in {".test.", ".spec."}, ext \in {"js", "ts"} :
          EndsWith(lf, stem \o ext)                    \* /\.(test|spec)\.[jt]s$/i
    \/ EndsWith(lf, "_test.rs")                        \* /_test\.rs$/i

\* the lockfile names compared without regard to case
IsDeps_IgnoreCase(f) ==
    \E name \in {"package-lock.json", "npm-shrinkwrap.json", "pnpm-lock.yaml",
                 "yarn.lock", "cargo.lock"} : BasenameIs(LowerStr(f), name)

IsDeps(f) ==
    \E name \in {"package-lock.json", "npm-shrinkwrap.json", "pnpm-lock.yaml",
                 "yarn.lock", "Cargo.lock"} : BasenameIs(f, name)

IsBuild(f) ==
    \/ \E name \in {"Cargo.toml", "build.rs", "package.json", "tsconfig.json"} :
          BasenameIs(f, name)
    \/ \E ext \in {"json", "js", "cjs", "yml", "yaml", "config.js"} :
          BasenameIs(f, "eslint." \o ext)
    \* /(^|\/)\.eslintrc(\..*)?$/
    \/ \E p \in SegmentStarts(f) :
          /\ StartsWith(From(f, p), ".eslintrc")
          /\ \/ Len(From(f, p)) = 9
             \/ SubSeq(f, p + 9, p + 9) = "."
    \* /(^|\/)vite\.(config\.)?\w+$/
    \/ \E p \in SegmentStarts(f) :
          \/ StartsWith(From(f, p), "vite.") /\ IsWord(From(f, p + 5))
          \/ StartsWith(From(f, p), "vite.config.") /\ IsWord(From(f, p + 12))
    \/ \E m \in {"", "c", "m"} : BasenameIs(f, "rollup.config." \o m \o "js")

IsChore(f) ==
    \/ StartsWith(f, ".vscode/")
    \/ \E name \in {".editorconfig", ".gitignore", ".npmrc"} : BasenameIs(f, name)

classifyFile(file) ==
    LET f == StripLeading(file) IN
    IF IsCi(f) THEN "ci"
    ELSE IF IsDocs(f) THEN "docs"
    ELSE IF IsTests(f) THEN "tests"
    ELSE IF IsDeps(f) THEN "deps"
    ELSE IF IsBuild(f) THEN "build"
    ELSE IF IsChore(f) THEN "chore"
    ELSE "code"

----------------------------------------------------------------------------
(* committy.ts: formatMessage; commit_groups.ts: the per-group defaults *)

\* the header with the "!" put before the scope
formatMessage_BangBeforeScope(input) ==
    LET scope  == IF IsSome(input.scope) /\ input.scope[1] # ""
                  THEN "(" \o input.scope[1] \o ")" ELSE ""
        bang   == IF Truthy(input.breaking) THEN "!" ELSE ""
        header == input.commit_type \o bang \o scope \o ": " \o input.short
        body   == IF IsSome(input.long) /\ input.long[1] # ""
                  THEN "\n\n" \o input.long[1] \o "\n" ELSE "\n"
    IN  header \o body

\* input: [commit_type, short: string; scope, long: optional string;
\*         breaking: optional boolean]
formatMessage(input) ==
    LET scope  == IF IsSome(input.scope) /\ input.scope[1] # ""
                  THEN "(" \o input.scope[1] \o ")" ELSE ""
        bang   == IF Truthy(input.breaking) THEN "!" ELSE ""
        header == input.commit_type \o scope \o bang \o ": " \o input.short
        body   == IF IsSome(input.long) /\ input.long[1] # ""
                  THEN "\n\n" \o input.long[1] \o "\n" ELSE "\n"
    IN  header \o body

defaultTypeFor(name) ==
    CASE name = "docs"  -> "docs"
      [] name = "tests" -> "test"
      [] name = "ci"    -> "ci"
      [] name = "deps"  -> "chore"
      [] name = "build" -> "build"
      [] name = "chore" -> "chore"
      [] name = "code"  -> "chore"

defaultShortFor(name) ==
    CASE name = "docs"  -> "update docs"
      [] name = "tests" -> "update tests"
      [] name = "ci"    -> "update CI"
      [] name = "deps"  -> "update dependencies"
      [] name = "build" -> "update build config"
      [] name = "chore" -> "misc maintenance"
      [] name = "code"  -> "update code"

----------------------------------------------------------------------------
(* git.ts: runGit and the collaborators built on it.  A GitRunResult is     *)
(* [code, stdout, stderr]; the repository answers each command from its     *)
(* state or fails.                                                          *)

\* stands for "\u0000", the separator of `git diff -z`; no path contains it
NUL == "\t"

GitRunResult(code, stdout, stderr) == [code |-> code, stdout |-> stdout, stderr |-> stderr]

RECURSIVE JoinZ(_)
\* what `git diff --name-only -z` prints for a list of paths
JoinZ(paths) ==
    IF paths = <<>> THEN "" ELSE Head(paths) \o NUL \o JoinZ(Tail(paths))

RECURSIVE Split(_, _)
\* out.split(sep) for a one-character separator
Split(out, sep) ==
    IF \E k \in 1..Len(out) : SubSeq(out, k, k) = sep
    THEN LET k == CHOOSE k \in 1..Len(out) :
                     /\ SubSeq(out, k, k) = sep
                     /\ \A j \in 1..(k - 1) : SubSeq(out, j, j) # sep
         IN  <<SubSeq(out, 1, k - 1)>> \o Split(SubSeq(out, k + 1, Len(out)), sep)
    ELSE <<out>>

IsNonEmptyString(x) == x # ""

splitNullList(out) ==
    IF out = "" THEN <<>> ELSE SelectSeq(Split(out, NUL), IsNonEmptyString)

\* the merged list kept as it is, repeats included
Dedup_KeepsRepeats(xs) == xs

RECURSIVE Dedup(_)
\* Array.from(new Set(xs)): first occurrences, in insertion order
Dedup(xs) ==
    IF xs = <<>> THEN <<>>
    ELSE LET front == Dedup(SubSeq(xs, 1, Len(xs) - 1))
             last  == xs[Len(xs)]
         IN  IF \E k \in 1..Len(front) : front[k] = last THEN front
             ELSE Append(front, last)

\* listChangedFiles, given the results of its two runGit calls
listChangedFiles(stagedRes, unstagedRes, includeUnstaged) ==
    LET st == splitNullList(stagedRes.stdout)
        un == splitNullList(unstagedRes.stdout)
    IN  [staged |-> st, unstaged |-> un,
         all |-> Dedup(st \o (IF includeUnstaged THEN un ELSE <<>>))]

Whitespace == {" ", "\n", "\t", "\r"}

RECURSIVE Trim(_)
\* String.prototype.trim
Trim(s) ==
    IF Len(s) = 0 THEN s
    ELSE IF SubSeq(s, 1, 1) \in Whitespace THEN Trim(SubSeq(s, 2, Len(s)))
    ELSE IF SubSeq(s, Len(s), Len(s)) \in Whitespace THEN Trim(SubSeq(s, 1, Len(s) - 1))
    ELSE s

\* commit(), given the results of `git commit` and (when reached) `git rev-parse HEAD`
commit(res, shaRes) ==
    IF res.code # 0 THEN [ok |-> FALSE, sha |-> None, raw |-> res]
    ELSE [ok |-> TRUE, sha |-> Some(Trim(shaRes.stdout)), raw |-> res]

----------------------------------------------------------------------------
(* The repository: what git answers *)

ShaDigits == <<"1", "2", "3", "4", "5", "6", "7", "8", "9">>

\* the id of the n-th commit created in this run
ShaOf(n) == "c0ffee" \o ShaDigits[n]

NotARepository == GitRunResult(128, "", "fatal: not a git repository")

\* runGit's `error` handler: git could not be spawned (no such cwd, no git)
SpawnFailure == GitRunResult(127, "", "spawn git ENOENT")

\* what git answers where it cannot work
Unusable == { NotARepository, SpawnFailure }

\* `git diff --name-only -z [--cached]`: the list, or a failure printing nothing
DiffResults(paths) ==
    IF repoValid THEN { GitRunResult(0, JoinZ(paths), "") } ELSE Unusable

\* `git add -- files`
AddResults ==
    IF repoValid
    THEN { GitRunResult(0, "", ""),
           GitRunResult(128, "", "fatal: pathspec did not match any files"),
           SpawnFailure }
    ELSE Unusable

\* `git commit -m message [-s]`: with nothing staged git prints to stdout and exits 1
CommitResults ==
    IF ~repoValid THEN Unusable
    ELSE IF repoStaged = <<>>
    THEN { GitRunResult(1, "nothing to commit, working tree clean", ""), SpawnFailure }
    ELSE { GitRunResult(0, "1 file changed", ""),
           GitRunResult(1, "", "pre-commit hook failed"),
           SpawnFailure }

\* `git rev-parse HEAD` after the n-th commit
RevParseResults(n) == { GitRunResult(0, ShaOf(n) \o "\n", "") }

\* `git push`
PushResults ==
    IF repoValid
    THEN { GitRunResult(0, "", ""),
           GitRunResult(128, "", "fatal: no upstream branch"),
           SpawnFailure }
    ELSE Unusable

\* the index after a successful `git add -- files`: the files with worktree
\* changes join it, a file without any (staged already, or committed by an
\* earlier commit of this run) adds nothing
IndexAfterAdd(files) ==
    repoStaged \o SelectSeq(files, LAMBDA f :
        /\ \A k \in 1..Len(repoStaged) : repoStaged[k] # f
        /\ \E k \in 1..Len(repoUnstaged) : repoUnstaged[k] = f)

\* the worktree changes left after a successful `git add -- files`
WorktreeAfterAdd(files) ==
    SelectSeq(repoUnstaged, LAMBDA f : \A k \in 1..Len(files) : files[k] # f)

----------------------------------------------------------------------------
(* commit_groups.ts: commitGroupedChanges *)

\* the lookup that ignores the group name and takes an override of the map
OverrideFor_AnyGroup(overrides, name) ==
    IF overrides = None THEN None
    ELSE Some(overrides[1][CHOOSE n \in DOMAIN overrides[1] : TRUE])

\* opts.groupOverrides?.[name]
OverrideFor(overrides, name) ==
    IF overrides = None THEN None
    ELSE IF name \in DOMAIN overrides[1] THEN Some(overrides[1][name])
    ELSE None

\* override?.field || dflt, for a string field
OverrideOr(override, field, dflt) ==
    IF override = None THEN dflt
    ELSE IF override[1][field] = None THEN dflt
    ELSE OrStr(override[1][field][1], dflt)

\* override?.field
OverrideField(override, field) ==
    IF override = None THEN None ELSE override[1][field]

\* line 55-57
EmptyBuckets == [name \in {ChangeGroupNames[k] : k \in 1..Len(ChangeGroupNames)} |-> <<>>]

RECURSIVE BucketsAfter(_, _)
\* lines 59-61: byGroup after the first k files of `all` were pushed
BucketsAfter(allFiles, k) ==
    IF k = 0 THEN EmptyBuckets
    ELSE LET prev == BucketsAfter(allFiles, k - 1)
             f    == allFiles[k]
             name == classifyFile(f)
         IN  [prev EXCEPT ![name] = Append(@, f)]

\* the GroupPlan pushed for a non-empty bucket
GroupPlanFor(name, files, overrides) ==
    LET override    == OverrideFor(overrides, name)
        commit_type == OverrideOr(override, "commit_type", defaultTypeFor(name))
        short       == OverrideOr(override, "short", defaultShortFor(name))
        message     == formatMessage([commit_type |-> commit_type, short |-> short,
                                      scope |-> OverrideField(override, "scope"),
                                      long |-> OverrideField(override, "long"),
                                      breaking |-> None])
    IN  [name |-> name, commit_type |-> commit_type, files |-> files,
         suggested_message |-> message]

RECURSIVE PlansFrom_KeepsEmpty(_, _, _)
\* the forEach without `if (!files.length) return`
PlansFrom_KeepsEmpty(k, byGroup, overrides) ==
    IF k > Len(ChangeGroupNames) THEN <<>>
    ELSE <<GroupPlanFor(ChangeGroupNames[k], byGroup[ChangeGroupNames[k]], overrides)>>
         \o PlansFrom_KeepsEmpty(k + 1, byGroup, overrides)

RECURSIVE PlansFrom(_, _, _)
\* lines 63-75: Object.keys(byGroup).forEach(...) from the k-th key on
PlansFrom(k, byGroup, overrides) ==
    IF k > Len(ChangeGroupNames) THEN <<>>
    ELSE LET name  == ChangeGroupNames[k]
             files == byGroup[name]
             rest  == PlansFrom(k + 1, byGroup, overrides)
         IN  IF Len(files) = 0 THEN rest
             ELSE <<GroupPlanFor(name, files, overrides)>> \o rest

BuildGroups(allFiles, overrides) ==
    PlansFrom(1, BucketsAfter(allFiles, Len(allFiles)), overrides)

\* lines 48-51: the resolved flags
IncludeUnstaged(o) == Nullish(o.includeUnstaged, TRUE)
\* staging done whatever opts.autoStage says
AutoStage_Always(o) == TRUE

\* line 49
AutoStage(o) == Nullish(o.autoStage, TRUE)
DryRun(o) == Nullish(o.dryRun, TRUE)
Confirm(o) == Nullish(o.confirm, FALSE)

\* `dryRun && !confirm` in place of `dryRun || !confirm`
IsPlanOnly_BothNeeded(o) == DryRun(o) /\ ~Confirm(o)

\* line 77
IsPlanOnly(o) == DryRun(o) \/ ~Confirm(o)

\* the push made whatever opts.push says
PushRequested_Always(o) == TRUE

\* line 102
PushRequested(o) == Truthy(o.push)

\* line 88
StageError(g, addRes) ==
    "git add failed for group " \o g.name \o ": " \o OrStr(addRes.stderr, addRes.stdout)

\* the failed record with the error text where the plan's message belongs
StageFailureRecord_ErrorAsMessage(g, addRes) ==
    [group |-> g.name, message |-> StageError(g, addRes), ok |-> FALSE,
     sha |-> None, error |-> Some(StageError(g, addRes))]

\* the record of a failed staging marked ok
StageFailureRecord_Ok(g, addRes) ==
    [group |-> g.name, message |-> g.suggested_message, ok |-> TRUE,
     sha |-> None, error |-> Some(StageError(g, addRes))]

\* line 90
StageFailureRecord(g, addRes) ==
    [group |-> g.name, message |-> g.suggested_message, ok |-> FALSE,
     sha |-> None, error |-> Some(StageError(g, addRes))]

\* the record of a commit without the sha that commit() returned
CommitRecordOf_DropsSha(g, c) ==
    [group |-> g.name, message |-> g.suggested_message, ok |-> c.ok, sha |-> None,
     error |-> IF c.ok THEN None ELSE Some(OrStr(c.raw.stderr, c.raw.stdout))]

\* the record with the commit's output as error even when the commit was made
CommitRecordOf_KeepsError(g, c) ==
    [group |-> g.name, message |-> g.suggested_message, ok |-> c.ok, sha |-> c.sha,
     error |-> Some(OrStr(c.raw.stderr, c.raw.stdout))]

\* line 95
CommitRecordOf(g, c) ==
    [group |-> g.name, message |-> g.suggested_message, ok |-> c.ok, sha |-> c.sha,
     error |-> IF c.ok THEN None ELSE Some(OrStr(c.raw.stderr, c.raw.stdout))]

\* line 97
CommitError(g, c) ==
    "commit failed for group " \o g.name \o ": " \o OrStr(c.raw.stderr, c.raw.stdout)

\* any exit of `git push` taken for a success
PushedFrom_AnyExit(pr) == TRUE

\* line 104
PushedFrom(pr) == pr.code = 0

\* line 105
PushError(pr) == "git push failed: " \o OrStr(pr.stderr, pr.stdout)

\* the plan-only result with an empty commits list added
PlanOnlyResult_EmptyCommits(gs) ==
    [ok |-> TRUE, groups |-> gs, commits |-> Some(<<>>), pushed |-> None, errors |-> None]

\* line 78
PlanOnlyResult(gs) ==
    [ok |-> TRUE, groups |-> gs, commits |-> None, pushed |-> None, errors |-> None]

\* ok computed from the commit records alone, the push outcome left out
ApplyResult_IgnoresPush(gs, cs, p, errs) ==
    [ok |-> \A i \in 1..Len(cs) : cs[i].ok, groups |-> gs, commits |-> Some(cs),
     pushed |-> Some(p), errors |-> IF Len(errs) > 0 THEN Some(errs) ELSE None]

\* line 108
ApplyResult(gs, cs, p, errs) ==
    [ok |-> Len(errs) = 0, groups |-> gs, commits |-> Some(cs), pushed |-> Some(p),
     errors |-> IF Len(errs) > 0 THEN Some(errs) ELSE None]

Call(args, code) == [args |-> args, code |-> code]

DiffCachedArgs == <<"diff", "--name-only", "--cached", "-z">>
DiffArgs == <<"diff", "--name-only", "-z">>
AddArgs(files) == <<"add", "--">> \o files
CommitArgs(message, signoff) ==
    <<"commit", "-m", message>> \o (IF Truthy(signoff) THEN <<"-s">> ELSE <<>>)
RevParseArgs == <<"rev-parse", "HEAD">>
PushArgs == <<"push">>

----------------------------------------------------------------------------
(* JSON.parse and JSON.stringify, as far as the committy wrappers need them. *)
(* A parsed value is kept as its minified text, which is what JSON.stringify *)
(* prints for it (numbers as written; strings with the escapes \" \\ \n \t  *)
(* \r only).                                                                 *)

Ch(s, k) == IF k >= 1 /\ k <= Len(s) THEN SubSeq(s, k, k) ELSE ""

JsonWs == {" ", "\n", "\t", "\r"}

RECURSIVE SkipWs(_, _)
\* the first position from k on that holds no JSON whitespace
SkipWs(s, k) == IF Ch(s, k) \in JsonWs THEN SkipWs(s, k + 1) ELSE k

\* a failed parse: SyntaxError
Fail == [next |-> 0, text |-> ""]

RECURSIVE StringEnd(_, _)
\* the position of the quote closing a string whose content starts at k; 0 if none
StringEnd(s, k) ==
    IF k > Len(s) THEN 0
    ELSE IF Ch(s, k) = "\"" THEN k
    ELSE IF Ch(s, k) = "\\"
         THEN IF Ch(s, k + 1) \in {"\"", "\\", "n", "t", "r"} THEN StringEnd(s, k + 2) ELSE 0
    ELSE IF Ch(s, k) \in {"\n", "\t", "\r"} THEN 0
    ELSE StringEnd(s, k + 1)

\* a string literal opening at k
ParseString(s, k) ==
    LET e == StringEnd(s, k + 1)
    IN  IF Ch(s, k) # "\"" \/ e = 0 THEN Fail ELSE [next |-> e + 1, text |-> SubSeq(s, k, e)]

RECURSIVE DigitsEnd(_, _)
DigitsEnd(s, k) == IF Ch(s, k) \in Digits THEN DigitsEnd(s, k + 1) ELSE k

\* -?(0|[1-9][0-9]*)(\.[0-9]+)?
ParseNumber(s, k) ==
    LET i == IF Ch(s, k) = "-" THEN k + 1 ELSE k
        e == DigitsEnd(s, i)
        f == DigitsEnd(s, e + 1)
    IN  IF e = i THEN Fail
        ELSE IF Ch(s, i) = "0" /\ e > i + 1 THEN Fail
        ELSE IF Ch(s, e) = "."
             THEN IF f = e + 1 THEN Fail ELSE [next |-> f, text |-> SubSeq(s, k, f - 1)]
        ELSE [next |-> e, text |-> SubSeq(s, k, e - 1)]

ParseLiteral(s, k) ==
    IF StartsWith(From(s, k), "true") THEN [next |-> k + 4, text |-> "true"]
    ELSE IF StartsWith(From(s, k), "false") THEN [next |-> k + 5, text |-> "false"]
    ELSE IF StartsWith(From(s, k), "null") THEN [next |-> k + 4, text |-> "null"]
    ELSE Fail

RECURSIVE ParseValue(_, _)
RECURSIVE ParseElements(_, _, _)
RECURSIVE ParseMembers(_, _, _)

\* the value starting at k (k is past the whitespace)
ParseValue(s, k) ==
    LET c == Ch(s, k)
        j == SkipWs(s, k + 1)
    IN  IF c = "{"
        THEN IF Ch(s, j) = "}" THEN [next |-> j + 1, text |-> "{}"]
             ELSE ParseMembers(s, j, "{")
        ELSE IF c = "["
        THEN IF Ch(s, j) = "]" THEN [next |-> j + 1, text |-> "[]"]
             ELSE ParseElements(s, j, "[")
        ELSE IF c = "\"" THEN ParseString(s, k)
        ELSE IF c = "-" \/ c \in Digits THEN ParseNumber(s, k)
        ELSE ParseLiteral(s, k)

\* the rest of an array from the element at k on; acc is the text so far
ParseElements(s, k, acc) ==
    LET v == ParseValue(s, k)
        j == SkipWs(s, v.next)
    IN  IF v.next = 0 THEN Fail
        ELSE IF Ch(s, j) = "," THEN ParseElements(s, SkipWs(s, j + 1), acc \o v.text \o ",")
        ELSE IF Ch(s, j) = "]" THEN [next |-> j + 1, text |-> acc \o v.text \o "]"]
        ELSE Fail

\* the rest of an object from the member at k on; acc is the text so far
ParseMembers(s, k, acc) ==
    LET key == ParseString(s, k)
        c   == SkipWs(s, key.next)
        v   == ParseValue(s, SkipWs(s, c + 1))
        j   == SkipWs(s, v.next)
        txt == acc \o key.text \o ":" \o v.text
    IN  IF key.next = 0 \/ Ch(s, c) # ":" \/ v.next = 0 THEN Fail
        ELSE IF Ch(s, j) = "," THEN ParseMembers(s, SkipWs(s, j + 1), txt \o ",")
        ELSE IF Ch(s, j) = "}" THEN [next |-> j + 1, text |-> txt \o "}"]
        ELSE Fail

\* JSON.parse(s): [threw, value]
JSONparse(s) ==
    LET v == ParseValue(s, SkipWs(s, 1))
    IN  IF v.next # 0 /\ SkipWs(s, v.next) = Len(s) + 1
        THEN [threw |-> FALSE, value |-> v.text]
        ELSE [threw |-> TRUE, value |-> ""]

RECURSIVE JsonEscape(_)
JsonEscape(s) ==
    IF Len(s) = 0 THEN ""
    ELSE LET c == Ch(s, 1)
             e == IF c = "\"" THEN "\\\""
                  ELSE IF c = "\\" THEN "\\\\"
                  ELSE IF c = "\n" THEN "\\n"
                  ELSE IF c = "\t" THEN "\\t"
                  ELSE IF c = "\r" THEN "\\r"
                  ELSE c
         IN  e \o JsonEscape(SubSeq(s, 2, Len(s)))

\* JSON.stringify of a string
JsonQuote(s) == "\"" \o JsonEscape(s) \o "\""

DigitStr == <<"0", "1", "2", "3", "4", "5", "6", "7", "8", "9">>

RECURSIVE NumStr(_)
\* JSON.stringify of a natural number
NumStr(n) == IF n < 10 THEN DigitStr[n + 1] ELSE NumStr(n \div 10) \o DigitStr[(n % 10) + 1]

BoolStr(b) == IF b THEN "true" ELSE "false"

----------------------------------------------------------------------------
(* committy.ts: the wrappers around the committy CLI; index.ts: the tool     *)
(* handler mcp0_apply_tag                                                    *)

RunResult(code, stdout, stderr) == [code |-> code, stdout |-> stdout, stderr |-> stderr]

\* getCommittyBin() with COMMITTY_BIN unset
CommittyBin == "committy"

\* runCommittyRaw's `error` handler, nothing read from the child
CliSpawnFailure ==
    RunResult(127, "", "Failed to spawn committy binary (\"" \o CommittyBin \o "\"): ENOENT")

\* ok although the exit code is not 0, once stdout parsed
runCommittyJson_OkOnParse(raw) ==
    IF Len(Trim(raw.stdout)) = 0 THEN [result |-> None, raw |-> raw, ok |-> raw.code = 0]
    ELSE LET parsed == JSONparse(raw.stdout)
         IN  IF parsed.threw THEN [result |-> None, raw |-> raw, ok |-> FALSE]
             ELSE [result |-> Some(parsed.value), raw |-> raw, ok |-> TRUE]

\* runCommittyJson, given what runCommittyRaw resolved with
runCommittyJson(raw) ==
    IF Len(Trim(raw.stdout)) = 0 THEN [result |-> None, raw |-> raw, ok |-> raw.code = 0]
    ELSE LET parsed == JSONparse(raw.stdout)
         IN  IF parsed.threw THEN [result |-> None, raw |-> raw, ok |-> FALSE]
             ELSE [result |-> Some(parsed.value), raw |-> raw, ok |-> raw.code = 0]

\* `if (o) args.push(flag, o)` for an optional string
FlagWith(flag, o) == IF IsSome(o) /\ o[1] # "" THEN <<flag, o[1]>> ELSE <<>>

\* `if (o) args.push(flag)` for an optional boolean
FlagIf(flag, o) == IF Truthy(o) THEN <<flag>> ELSE <<>>

RECURSIVE JoinWith(_, _)
\* xs.join(sep)
JoinWith(xs, sep) ==
    IF Len(xs) = 0 THEN ""
    ELSE IF Len(xs) = 1 THEN xs[1]
    ELSE xs[1] \o sep \o JoinWith(Tail(xs), sep)

\* the arguments applyTag passes to the CLI
applyTagArgs(options) ==
    <<"--non-interactive", "tag", "--output", "json", "--source", options.source>>
    \o FlagWith("--name", options.name)
    \o FlagIf("--bump-files", options.bumpFiles)
    \o FlagWith("--tag-message", options.tagMessage)
    \o FlagIf("--fetch", options.fetch)
    \o FlagIf("--prerelease", options.prerelease)
    \o FlagWith("--prerelease-suffix", options.prereleaseSuffix)
    \o (IF Len(options.releaseBranches) > 0
        THEN <<"--release-branches", JoinWith(options.releaseBranches, ",")>> ELSE <<>>)

\* the ApplyTagOptions the handler builds from the tool input
ApplyTagOptionsOf(input) ==
    [source |-> input.repo_path, name |-> input.name, fetch |-> input.fetch,
     prerelease |-> input.prerelease, prereleaseSuffix |-> input.prerelease_suffix,
     releaseBranches |-> input.release_branches, bumpFiles |-> input.bump_files,
     tagMessage |-> input.tag_message]

\* the guard taken for passed whatever confirm_push is
ConfirmPush_Always(input) == TRUE

\* index.ts line 95: `if (!confirm_push)` lets the call through
ConfirmPush(input) == input.confirm_push

RefusalText == "confirm_push is false; refusing to mutate repo."

\* res.result ?? { stdout, stderr, code, ok }, through JSON.stringify
PayloadText(res) ==
    IF IsSome(res.result) /\ res.result[1] # "null" THEN res.result[1]
    ELSE "{\"stdout\":" \o JsonQuote(res.raw.stdout)
         \o ",\"stderr\":" \o JsonQuote(res.raw.stderr)
         \o ",\"code\":" \o NumStr(res.raw.code)
         \o ",\"ok\":" \o BoolStr(res.ok) \o "}"

\* what the committy process can end with: printed text and exit code, or no process
CliStdouts ==
    { "", " \n",
      "{\"command\":\"apply-tag\",\"source\":\"/repo\",\"name\":\"v1.2.3\",\"pushed\":true}",
      "{ \"ok\": false, \"errors\": [\"tag exists\", 2] }\n",
      "null",
      "{ not-json: true ",
      "not-json",
      "{\"name\":\"v1.2.3\",}" }

CliResults ==
    { RunResult(code, out, err) :
        code \in {0, 2}, out \in CliStdouts, err \in {"", "error: tag exists"} }
    \cup { CliSpawnFailure }

----------------------------------------------------------------------------
(* Actions *)

\* line 53: await listChangedFiles(opts.repoPath, includeUnstaged)
ListChangedFiles ==
    /\ pc = "Enumerating"
    /\ \E stagedRes \in DiffResults(repoStaged), unstagedRes \in DiffResults(repoUnstaged) :
          /\ all' = listChangedFiles(stagedRes, unstagedRes, IncludeUnstaged(opts)).all
          /\ calls' = calls \o <<Call(DiffCachedArgs, stagedRes.code),
                                 Call(DiffArgs, unstagedRes.code)>>
    /\ pc' = "Classifying"
    /\ UNCHANGED <<opts, repoValid, repoStaged, repoUnstaged, repoCommits, groups, gi, commits,
                   errors, pushed, result>>
    /\ UNCHANGED <<pureVars, cliVars>>

\* lines 55-75: classify every file and materialize the plans
BuildPlan ==
    /\ pc = "Classifying"
    /\ groups' = BuildGroups(all, opts.groupOverrides)
    /\ pc' = "PlanBuilt"
    /\ UNCHANGED <<opts, repoValid, repoStaged, repoUnstaged, repoCommits, calls, all, gi, commits,
                   errors, pushed, result>>
    /\ UNCHANGED <<pureVars, cliVars>>

\* lines 77-79
ReturnPlanOnly ==
    /\ pc = "PlanBuilt"
    /\ IsPlanOnly(opts)
    /\ result' = Some(PlanOnlyResult(groups))
    /\ pc' = "PlanOnlyDone"
    /\ UNCHANGED <<opts, repoValid, repoStaged, repoUnstaged, repoCommits, calls, all, groups, gi,
                   commits, errors, pushed>>
    /\ UNCHANGED <<pureVars, cliVars>>

\* lines 81-84: enter the loop over the plans
BeginApply ==
    /\ pc = "PlanBuilt"
    /\ ~IsPlanOnly(opts)
    /\ commits' = <<>>
    /\ errors' = <<>>
    /\ gi' = 1
    /\ pc' = "Applying"
    /\ UNCHANGED <<opts, repoValid, repoStaged, repoUnstaged, repoCommits, calls, all, groups,
                   pushed, result>>
    /\ UNCHANGED <<pureVars, cliVars>>

\* the staging step with `break` where the code has `continue`
StageGroup_Break ==
    /\ pc = "Applying"
    /\ gi <= Len(groups)
    /\ AutoStage(opts)
    /\ LET g == groups[gi] IN
       \E addRes \in AddResults :
          /\ calls' = Append(calls, Call(AddArgs(g.files), addRes.code))
          /\ IF addRes.code # 0
             THEN /\ errors' = Append(errors, StageError(g, addRes))
                  /\ commits' = Append(commits, StageFailureRecord(g, addRes))
                  /\ gi' = Len(groups) + 1
                  /\ pc' = "Applying"
                  /\ UNCHANGED <<repoStaged, repoUnstaged>>
             ELSE /\ repoStaged' = IndexAfterAdd(g.files)
                  /\ repoUnstaged' = WorktreeAfterAdd(g.files)
                  /\ pc' = "Committing"
                  /\ UNCHANGED <<errors, commits, gi>>
    /\ UNCHANGED <<opts, repoValid, repoCommits, all, groups, pushed, result>>
    /\ UNCHANGED <<pureVars, cliVars>>

\* the staging step with one more `git add` after a failed one
StageGroup_Retry ==
    /\ pc = "Applying"
    /\ gi <= Len(groups)
    /\ AutoStage(opts)
    /\ LET g == groups[gi] IN
       \E addRes \in AddResults :
          /\ calls' = Append(calls, Call(AddArgs(g.files), addRes.code))
                      \o (IF addRes.code # 0
                          THEN <<Call(AddArgs(g.files), addRes.code)>> ELSE <<>>)
          /\ IF addRes.code # 0
             THEN /\ errors' = Append(errors, StageError(g, addRes))
                  /\ commits' = Append(commits, StageFailureRecord(g, addRes))
                  /\ gi' = gi + 1
                  /\ pc' = "Applying"
                  /\ UNCHANGED <<repoStaged, repoUnstaged>>
             ELSE /\ repoStaged' = IndexAfterAdd(g.files)
                  /\ repoUnstaged' = WorktreeAfterAdd(g.files)
                  /\ pc' = "Committing"
                  /\ UNCHANGED <<errors, commits, gi>>
    /\ UNCHANGED <<opts, repoValid, repoCommits, all, groups, pushed, result>>
    /\ UNCHANGED <<pureVars, cliVars>>

\* lines 85-92: await stageFiles(opts.repoPath, g.files)
StageGroup ==
    /\ pc = "Applying"
    /\ gi <= Len(groups)
    /\ AutoStage(opts)
    /\ LET g == groups[gi] IN
       \E addRes \in AddResults :
          /\ calls' = Append(calls, Call(AddArgs(g.files), addRes.code))
          /\ IF addRes.code # 0
             THEN /\ errors' = Append(errors, StageError(g, addRes))
                  /\ commits' = Append(commits, StageFailureRecord(g, addRes))
                  /\ gi' = gi + 1
                  /\ pc' = "Applying"
                  /\ UNCHANGED <<repoStaged, repoUnstaged>>
             ELSE /\ repoStaged' = IndexAfterAdd(g.files)
                  /\ repoUnstaged' = WorktreeAfterAdd(g.files)
                  /\ pc' = "Committing"
                  /\ UNCHANGED <<errors, commits, gi>>
    /\ UNCHANGED <<opts, repoValid, repoCommits, all, groups, pushed, result>>
    /\ UNCHANGED <<pureVars, cliVars>>

\* line 85 with autoStage false: straight to the commit
SkipStage ==
    /\ pc = "Applying"
    /\ gi <= Len(groups)
    /\ ~AutoStage(opts)
    /\ pc' = "Committing"
    /\ UNCHANGED <<opts, repoValid, repoStaged, repoUnstaged, repoCommits, calls, all, groups, gi,
                   commits, errors, pushed, result>>
    /\ UNCHANGED <<pureVars, cliVars>>

\* lines 94-98: await gitCommit(opts.repoPath, g.suggested_message, opts.signoff)
CommitGroup ==
    /\ pc = "Committing"
    /\ LET g == groups[gi]
           n == Len(repoCommits) + 1
       IN  \E res \in CommitResults :
           \E shaRes \in (IF res.code = 0 THEN RevParseResults(n) ELSE {res}) :
              LET c == commit(res, shaRes) IN
              /\ calls' = calls
                    \o <<Call(CommitArgs(g.suggested_message, opts.signoff), res.code)>>
                    \o (IF res.code = 0 THEN <<Call(RevParseArgs, shaRes.code)>> ELSE <<>>)
              /\ commits' = Append(commits, CommitRecordOf(g, c))
              /\ errors' = IF ~c.ok THEN Append(errors, CommitError(g, c)) ELSE errors
              /\ IF res.code = 0
                 THEN /\ repoCommits' = Append(repoCommits,
                              [sha |-> ShaOf(n), message |-> g.suggested_message,
                               files |-> repoStaged])
                      /\ repoStaged' = <<>>
                 ELSE UNCHANGED <<repoCommits, repoStaged>>
    /\ gi' = gi + 1
    /\ pc' = "Applying"
    /\ UNCHANGED <<opts, repoValid, repoUnstaged, all, groups, pushed, result>>
    /\ UNCHANGED <<pureVars, cliVars>>

\* line 84: the loop is over
EndLoop ==
    /\ pc = "Applying"
    /\ gi > Len(groups)
    /\ pc' = "Applied"
    /\ UNCHANGED <<opts, repoValid, repoStaged, repoUnstaged, repoCommits, calls, all, groups, gi,
                   commits, errors, pushed, result>>
    /\ UNCHANGED <<pureVars, cliVars>>

\* a push whose spawn failure rejects instead of resolving with code 127
Push_Rejects ==
    /\ pc = "Applied"
    /\ PushRequested(opts)
    /\ \E pr \in PushResults :
          /\ calls' = Append(calls, Call(PushArgs, pr.code))
          /\ IF pr.code = 127
             THEN /\ pc' = "Thrown"
                  /\ UNCHANGED <<pushed, errors>>
             ELSE /\ pushed' = PushedFrom(pr)
                  /\ errors' = IF PushedFrom(pr) THEN errors ELSE Append(errors, PushError(pr))
                  /\ pc' = "Returning"
    /\ UNCHANGED <<opts, repoValid, repoStaged, repoUnstaged, repoCommits, all, groups, gi,
                   commits, result>>
    /\ UNCHANGED <<pureVars, cliVars>>

\* lines 102-106: await gitPush(opts.repoPath)
Push ==
    /\ pc = "Applied"
    /\ PushRequested(opts)
    /\ \E pr \in PushResults :
          /\ calls' = Append(calls, Call(PushArgs, pr.code))
          /\ pushed' = PushedFrom(pr)
          /\ errors' = IF PushedFrom(pr) THEN errors ELSE Append(errors, PushError(pr))
    /\ pc' = "Returning"
    /\ UNCHANGED <<opts, repoValid, repoStaged, repoUnstaged, repoCommits, all, groups, gi,
                   commits, result>>
    /\ UNCHANGED <<pureVars, cliVars>>

\* line 102 with push not requested
SkipPush ==
    /\ pc = "Applied"
    /\ ~PushRequested(opts)
    /\ pc' = "Returning"
    /\ UNCHANGED <<opts, repoValid, repoStaged, repoUnstaged, repoCommits, calls, all, groups, gi,
                   commits, errors, pushed, result>>
    /\ UNCHANGED <<pureVars, cliVars>>

\* line 108
ReturnApplied ==
    /\ pc = "Returning"
    /\ result' = Some(ApplyResult(groups, commits, pushed, errors))
    /\ pc' = "AppliedDone"
    /\ UNCHANGED <<opts, repoValid, repoStaged, repoUnstaged, repoCommits, calls, all, groups, gi,
                   commits, errors, pushed>>
    /\ UNCHANGED <<pureVars, cliVars>>

----------------------------------------------------------------------------
(* Inputs and specifications *)

\* the sublists of `ordered` of length at most n: git lists paths in path order
SortedPathLists(ordered, n) ==
    { SelectSeq(ordered, LAMBDA f : f \in T) :
        T \in { U \in SUBSET {ordered[k] : k \in 1..Len(ordered)} : Cardinality(U) <= n } }

NoOverrides == None

\* no pure-function call and no tool call is part of the run
PureIdle == subject = None /\ evals = {}

CliIdle ==
    /\ request = None
    /\ cpc = "Idle"
    /\ spawned = <<>>
    /\ wrapped = None
    /\ reply = None
    /\ child = None
    /\ promise = None

\* commitGroupedChanges is not part of the run
OrchIdle ==
    /\ opts = None
    /\ pc = "Idle"
    /\ repoValid = TRUE
    /\ repoStaged = <<>>
    /\ repoUnstaged = <<>>
    /\ repoCommits = <<>>
    /\ calls = <<>>
    /\ all = <<>>
    /\ groups = <<>>
    /\ gi = 0
    /\ commits = <<>>
    /\ errors = <<>>
    /\ pushed = FALSE
    /\ result = None

AllOpts ==
    [includeUnstaged : OptBool, autoStage : OptBool, dryRun : OptBool, push : OptBool,
     signoff : OptBool, confirm : OptBool, groupOverrides : {NoOverrides}]

InitWith(optsSet, stagedSet, unstagedSet) ==
    /\ opts \in optsSet
    /\ \/ /\ repoValid = TRUE
          /\ repoStaged \in stagedSet
          /\ repoUnstaged \in unstagedSet
       \/ /\ repoValid = FALSE
          /\ repoStaged = <<>>
          /\ repoUnstaged = <<>>
    /\ repoCommits = <<>>
    /\ calls = <<>>
    /\ pc = "Enumerating"
    /\ all = <<>>
    /\ groups = <<>>
    /\ gi = 0
    /\ commits = <<>>
    /\ errors = <<>>
    /\ pushed = FALSE
    /\ result = None
    /\ PureIdle
    /\ CliIdle

\* the repository files of the orchestrator runs (docs, deps, code), in path order
Files == <<"README.md", "package-lock.json", "src/app.ts">>

MaxStaged == 2
MaxUnstaged == 2

Init ==
    InitWith(AllOpts, SortedPathLists(Files, MaxStaged), SortedPathLists(Files, MaxUnstaged))

Next ==
    \/ ListChangedFiles
    \/ BuildPlan
    \/ ReturnPlanOnly
    \/ BeginApply
    \/ StageGroup
    \/ SkipStage
    \/ CommitGroup
    \/ EndLoop
    \/ Push
    \/ SkipPush
    \/ ReturnApplied

Spec == Init /\ [][Next]_vars

\* The runs that reach the decision of line 77 with confirm set: apply runs
\* with and without staging and push, and the plan-only runs dryRun defaults to.
ConfirmedOpts ==
    [includeUnstaged : {None}, autoStage : {None, Some(FALSE)}, dryRun : {None, Some(FALSE)},
     push : {None, Some(TRUE)}, signoff : {None}, confirm : {Some(TRUE)},
     groupOverrides : {NoOverrides}]

InitConfirmed ==
    InitWith(ConfirmedOpts, SortedPathLists(Files, MaxStaged), SortedPathLists(Files, MaxUnstaged))

\* lines 55-75 as a step of the run: the synchronous loops end with the plans built
ClassifyStep == pc = "Classifying" /\ pc' = "PlanBuilt"

\* lines 77-108: the steps that follow the plan
AfterPlan ==
    \/ ReturnPlanOnly
    \/ BeginApply
    \/ StageGroup
    \/ SkipStage
    \/ CommitGroup
    \/ EndLoop
    \/ Push
    \/ SkipPush
    \/ ReturnApplied

\* Once the enumeration has returned the synchronous code runs to its end, every
\* awaited git call returns and its continuation runs.  (Within Next a
\* ClassifyStep is a BuildPlan step.)
SpecFair == InitConfirmed /\ [][Next]_vars /\ WF_pc(ClassifyStep) /\ WF_vars(AfterPlan)

\* Planning alone: every flag but includeUnstaged is left out (so the run is
\* plan-only), over a repository with a file for each classification rule.
GroupOverride(commit_type, scope, short, long) ==
    [commit_type |-> commit_type, scope |-> scope, short |-> short, long |-> long]

\* the override maps tried: none; type and scope for docs; short and body for
\* code together with empty strings for tests
PlanOverrides ==
    { NoOverrides,
      Some([docs |-> GroupOverride(Some("feat"), Some("guide"), None, None)]),
      Some([code |-> GroupOverride(None, None, Some("rework parser"), Some("Body text.")),
            tests |-> GroupOverride(Some(""), Some(""), Some(""), Some(""))]) }

PlanOpts ==
    [includeUnstaged : OptBool, autoStage : {None}, dryRun : {None}, push : {None},
     signoff : {None}, confirm : {None}, groupOverrides : PlanOverrides]

PlanFiles ==
    <<"..github/ci.yml", ".github/workflows/ci.yml", "Cargo.toml", "README.md",
      "package-lock.json", "src/app.ts", "tests/app.test.ts", "web/.gitignore">>

MaxPlanStaged == 2
MaxPlanUnstaged == 2

InitPlan ==
    InitWith(PlanOpts, SortedPathLists(PlanFiles, MaxPlanStaged),
             SortedPathLists(PlanFiles, MaxPlanUnstaged))

NextPlan ==
    \/ ListChangedFiles
    \/ BuildPlan
    \/ ReturnPlanOnly

SpecPlan == InitPlan /\ [][NextPlan]_vars

\* classifyFile alone: a path is drawn and classifyFile is called on it as it is
\* and with "./" in front.
ClassifyDirs == {"", ".github/", ".vscode/", "docs/", "tests/", "src/", "web/", "Tests/", "DOCS/"}

ClassifyNames ==
    {"README.md", "ci.yml", "app.test.ts", "APP.TEST.JS", "package-lock.json",
     "Cargo.toml", ".gitignore", ".eslintrc", "settings.json", "main.rs",
     "lib_test.rs", "guide.MDX", "PACKAGE-LOCK.JSON", "cargo.toml", ".GITIGNORE",
     "LIB_TEST.RS", ".npmrc"}

ClassifyInputs == {d \o n : d \in ClassifyDirs, n \in ClassifyNames}

\* a call classifyFile(file)
ClassifyFile ==
    /\ cpc = "Classify"
    /\ \E file \in {subject[1], "./" \o subject[1]} :
          /\ \A e \in evals : e.arg # file
          /\ evals' = evals \cup {[arg |-> file, ret |-> classifyFile(file)]}
    /\ UNCHANGED <<subject, cliVars, orchVars>>

InitClassify ==
    /\ OrchIdle
    /\ subject \in {Some(x) : x \in ClassifyInputs}
    /\ evals = {}
    /\ request = None
    /\ cpc = "Classify"
    /\ spawned = <<>>
    /\ wrapped = None
    /\ reply = None
    /\ child = None
    /\ promise = None

NextClassify == ClassifyFile

SpecClassify == InitClassify /\ [][NextClassify]_vars

\* formatMessage alone: a FormatMessageInput is drawn and formatMessage is called
\* on it, as the mcp0_format_message tool does.
FormatInputs ==
    [commit_type : {"feat", "docs"},
     short : {"add new API", "update docs", " spaced out "},
     scope : {None, Some(""), Some("core"), Some(" a(b) ")},
     long : {None, Some(""), Some("This introduces a new API."), Some(" one\ntwo \n")},
     breaking : OptBool]

\* a call formatMessage(input)
FormatMessage ==
    /\ cpc = "Format"
    /\ evals = {}
    /\ evals' = {[arg |-> subject[1], ret |-> formatMessage(subject[1])]}
    /\ UNCHANGED <<subject, cliVars, orchVars>>

InitFormat ==
    /\ OrchIdle
    /\ subject \in {Some(x) : x \in FormatInputs}
    /\ evals = {}
    /\ request = None
    /\ cpc = "Format"
    /\ spawned = <<>>
    /\ wrapped = None
    /\ reply = None
    /\ child = None
    /\ promise = None

NextFormat == FormatMessage

SpecFormat == InitFormat /\ [][NextFormat]_vars

\* The mcp0_apply_tag tool: a tool call is drawn, the handler refuses it or runs
\* applyTag, whose committy process ends in one of CliResults.
ApplyTagInputs ==
    [repo_path : {"/repo"}, name : {None, Some("v1.2.3")}, fetch : OptBool,
     prerelease : {None}, prerelease_suffix : {None},
     release_branches : {<<>>, <<"main", "release">>},
     bump_files : {None, Some(TRUE)}, tag_message : {None}, confirm_push : BOOLEAN]

\* index.ts lines 95-97: the handler returns the refusal
ApplyTagRefuse ==
    /\ cpc = "Handling"
    /\ request[1].tool = "mcp0_apply_tag"
    /\ ~ConfirmPush(request[1].input)
    /\ reply' = Some([text |-> RefusalText])
    /\ cpc' = "Replied"
    /\ UNCHANGED <<request, spawned, wrapped, child, promise, pureVars, orchVars>>

\* index.ts lines 98-107: await applyTag(...), which spawns committy and wraps
\* what the process ended with
ApplyTagRun ==
    /\ cpc = "Handling"
    /\ request[1].tool = "mcp0_apply_tag"
    /\ ConfirmPush(request[1].input)
    /\ spawned' = Append(spawned, applyTagArgs(ApplyTagOptionsOf(request[1].input)))
    /\ \E raw \in CliResults : wrapped' = Some(runCommittyJson(raw))
    /\ cpc' = "Wrapped"
    /\ UNCHANGED <<request, reply, child, promise, pureVars, orchVars>>

\* index.ts lines 108-109: the payload goes back as text
ApplyTagReply ==
    /\ cpc = "Wrapped"
    /\ reply' = Some([text |-> PayloadText(wrapped[1])])
    /\ cpc' = "Replied"
    /\ UNCHANGED <<request, spawned, wrapped, child, promise, pureVars, orchVars>>

InitCli ==
    /\ OrchIdle
    /\ PureIdle
    /\ request \in {Some([tool |-> "mcp0_apply_tag", input |-> i]) : i \in ApplyTagInputs}
    /\ cpc = "Handling"
    /\ spawned = <<>>
    /\ wrapped = None
    /\ reply = None
    /\ child = None
    /\ promise = None

NextCli ==
    \/ ApplyTagRefuse
    \/ ApplyTagRun
    \/ ApplyTagReply

SpecCli == InitCli /\ [][NextCli]_vars

----------------------------------------------------------------------------
(* committy.ts lines 17-47: runCommittyRaw, handler by handler.  The child   *)
(* process is its pending stdout and stderr chunks, its exit code and the    *)
(* events still to be emitted; the promise holds the two closure variables    *)
(* and what it was resolved with.                                            *)

\* s.includes(sub)
Contains(s, sub) ==
    \E k \in 0..(Len(s) - Len(sub)) : SubSeq(s, k + 1, k + Len(sub)) = sub

\* line 41: the message of the `error` handler
SpawnErrorMessage(errCode) ==
    "Failed to spawn committy binary (\"" \o CommittyBin \o "\"): " \o errCode

\* the arguments lintMessage passes to the CLI
lintMessageArgs(message) ==
    <<"--non-interactive", "lint-message", "--message", message, "--output", "json">>

\* a second resolve replaces the first
Resolve_LastWins(p, value) == [p EXCEPT !.settled = Some(value)]

\* resolve(value): a promise settles once, later calls change nothing
Resolve(p, value) ==
    IF IsSome(p.settled) THEN p ELSE [p EXCEPT !.settled = Some(value)]

\* the exit code reported by `close` for a child that was never started:
\* the negated errno (ENOENT, EACCES)
FailedSpawnCodes == {-2, -13}

ErrnoName(code) == IF code = -2 THEN "ENOENT" ELSE "EACCES"

\* what the spawned child will do: fail to start (an `error` and a `close`
\* are emitted, nothing is printed), or run, print chunks and exit
ChildOutcomes ==
    { [failed |-> TRUE, out |-> <<>>, err |-> <<>>, code |-> c,
       pending |-> {"error", "close"}, delivered |-> <<>>] : c \in FailedSpawnCodes }
    \cup
    { [failed |-> FALSE, out |-> o, err |-> e, code |-> c,
       pending |-> {"close"}, delivered |-> <<>>] :
         o \in { <<>>, <<"{\"valid\":true}\n">>, <<"{\"valid\":", "false}">>, <<"not-json">> },
         e \in { <<>>, <<"warning: no scope\n">> },
         c \in {0, 2} }

LintMessages == {"feat: add parser", "added parser"}

\* lines 69-78 and 18-36: lintMessage builds the arguments, runCommittyRaw
\* spawns the child and registers its handlers
SpawnCommitty ==
    /\ cpc = "Handling"
    /\ request[1].tool = "mcp0_lint_message"
    /\ spawned' = Append(spawned, lintMessageArgs(request[1].input.message))
    /\ child' \in {Some(c) : c \in ChildOutcomes}
    /\ promise' = Some([stdout |-> "", stderr |-> "", settled |-> None])
    /\ cpc' = "Awaiting"
    /\ UNCHANGED <<request, wrapped, reply, pureVars, orchVars>>

\* line 35: child.stdout.on("data", d => stdout += d.toString())
OnStdoutData ==
    /\ IsSome(child)
    /\ child[1].out # <<>>
    /\ promise' = Some([promise[1] EXCEPT !.stdout = @ \o Head(child[1].out)])
    /\ child' = Some([child[1] EXCEPT !.out = Tail(@)])
    /\ UNCHANGED <<request, cpc, spawned, wrapped, reply, pureVars, orchVars>>

\* line 36: child.stderr.on("data", d => stderr += d.toString())
OnStderrData ==
    /\ IsSome(child)
    /\ child[1].err # <<>>
    /\ promise' = Some([promise[1] EXCEPT !.stderr = @ \o Head(child[1].err)])
    /\ child' = Some([child[1] EXCEPT !.err = Tail(@)])
    /\ UNCHANGED <<request, cpc, spawned, wrapped, reply, pureVars, orchVars>>

\* lines 40-42: the value the `error` handler resolves with
ErrorResult(stdout, stderr, errCode) ==
    LET msg == SpawnErrorMessage(errCode)
    IN  RunResult(127, stdout, IF stderr # "" THEN stderr \o "\n" \o msg ELSE msg)

\* lines 38-43: child.on("error", ...) resolves with code 127 and the message
OnError ==
    /\ IsSome(child)
    /\ "error" \in child[1].pending
    /\ promise' = Some(Resolve(promise[1],
           ErrorResult(promise[1].stdout, promise[1].stderr, ErrnoName(child[1].code))))
    /\ child' = Some([child[1] EXCEPT !.pending = @ \ {"error"},
                                      !.delivered = Append(@, "error")])
    /\ UNCHANGED <<request, cpc, spawned, wrapped, reply, pureVars, orchVars>>

\* line 45: child.on("close", code => resolve({ code, stdout, stderr })); the
\* event follows the end of both streams.  The handlers are registered
\* independently of each other: no order between `error` and `close` is
\* imposed by the code.
OnClose ==
    /\ IsSome(child)
    /\ "close" \in child[1].pending
    /\ child[1].out = <<>>
    /\ child[1].err = <<>>
    /\ promise' = Some(Resolve(promise[1],
           RunResult(child[1].code, promise[1].stdout, promise[1].stderr)))
    /\ child' = Some([child[1] EXCEPT !.pending = @ \ {"close"},
                                      !.delivered = Append(@, "close")])
    /\ UNCHANGED <<request, cpc, spawned, wrapped, reply, pureVars, orchVars>>

\* every value the promise can be resolved with
SettledResults ==
    { RunResult(c.code, JoinWith(c.out, ""), JoinWith(c.err, "")) : c \in ChildOutcomes }
    \cup { ErrorResult("", "", ErrnoName(code)) : code \in FailedSpawnCodes }

\* runCommittyJson over the values the promise can be resolved with
WrappedOf == [raw \in SettledResults |-> runCommittyJson(raw)]

\* lines 50-59: `await runCommittyRaw(...)` continues once the promise is
\* settled and runCommittyJson wraps the value
ReturnWrapped ==
    /\ cpc = "Awaiting"
    /\ IsSome(promise[1].settled)
    /\ wrapped' = Some(WrappedOf[promise[1].settled[1]])
    /\ cpc' = "Wrapped"
    /\ UNCHANGED <<request, spawned, reply, child, promise, pureVars, orchVars>>

InitRaw ==
    /\ OrchIdle
    /\ PureIdle
    /\ request \in {Some([tool |-> "mcp0_lint_message", input |-> [message |-> m]]) :
                      m \in LintMessages}
    /\ cpc = "Handling"
    /\ spawned = <<>>
    /\ wrapped = None
    /\ reply = None
    /\ child = None
    /\ promise = None

NextRaw ==
    \/ SpawnCommitty
    \/ OnStdoutData
    \/ OnStderrData
    \/ OnError
    \/ OnClose
    \/ ReturnWrapped

\* Node's event loop delivers every emitted event and runs every continuation
\* of a settled promise
SpecRaw == InitRaw /\ [][NextRaw]_vars /\ WF_vars(NextRaw)

----------------------------------------------------------------------------
(* committy.ts lines 261-302: the group-commit wrappers of the Rust CLI *)

\* `if (typeof o === "number") args.push(flag, String(o))`
FlagNum(flag, o) == IF IsSome(o) THEN <<flag, NumStr(o[1])>> ELSE <<>>

\* the flags pushed for any mode, with autoStage and push not looked at the mode
buildGroupCommitArgs_AnyMode(mode, options) ==
    <<"--non-interactive", "group-commit", "--mode", mode, "--output", "json">>
    \o FlagIf("--include-unstaged", options.includeUnstaged)
    \o FlagIf("--auto-stage", options.autoStage)
    \o FlagIf("--push", options.push)
    \o (IF Truthy(options.ai)
        THEN <<"--ai">>
             \o FlagWith("--ai-provider", options.aiProvider)
             \o FlagWith("--ai-model", options.aiModel)
             \o FlagWith("--ai-api-key-env", options.aiApiKeyEnv)
             \o FlagWith("--ai-base-url", options.aiBaseUrl)
             \o FlagNum("--ai-max-tokens", options.aiMaxTokens)
             \o FlagNum("--ai-temperature", options.aiTemperature)
             \o FlagNum("--ai-timeout-ms", options.aiTimeoutMs)
             \o FlagIf("--no-ai-json-mode", options.noAiJsonMode)
             \o FlagWith("--ai-system-prompt", options.aiSystemPrompt)
             \o FlagWith("--ai-system-prompt-file", options.aiSystemPromptFile)
             \o FlagNum("--ai-file-limit", options.aiFileLimit)
             \o FlagIf("--ai-allow-sensitive", options.aiAllowSensitive)
        ELSE <<>>)

\* lines 261-289
buildGroupCommitArgs(mode, options) ==
    <<"--non-interactive", "group-commit", "--mode", mode, "--output", "json">>
    \o FlagIf("--include-unstaged", options.includeUnstaged)
    \o (IF mode = "apply" THEN FlagIf("--auto-stage", options.autoStage) ELSE <<>>)
    \o (IF mode = "apply" THEN FlagIf("--push", options.push) ELSE <<>>)
    \o (IF Truthy(options.ai)
        THEN <<"--ai">>
             \o FlagWith("--ai-provider", options.aiProvider)
             \o FlagWith("--ai-model", options.aiModel)
             \o FlagWith("--ai-api-key-env", options.aiApiKeyEnv)
             \o FlagWith("--ai-base-url", options.aiBaseUrl)
             \o FlagNum("--ai-max-tokens", options.aiMaxTokens)
             \o FlagNum("--ai-temperature", options.aiTemperature)
             \o FlagNum("--ai-timeout-ms", options.aiTimeoutMs)
             \o FlagIf("--no-ai-json-mode", options.noAiJsonMode)
             \o FlagWith("--ai-system-prompt", options.aiSystemPrompt)
             \o FlagWith("--ai-system-prompt-file", options.aiSystemPromptFile)
             \o FlagNum("--ai-file-limit", options.aiFileLimit)
             \o FlagIf("--ai-allow-sensitive", options.aiAllowSensitive)
        ELSE <<>>)

\* The options a caller can hand to either wrapper: an object passed to
\* groupCommitPlan can carry autoStage and push like any other.
GroupCommitOptions ==
    [includeUnstaged : OptBool, autoStage : OptBool, push : OptBool,
     ai : {None, Some(TRUE)}, aiProvider : {None, Some("ollama")}, aiModel : {None},
     aiApiKeyEnv : {None}, aiBaseUrl : {None}, aiMaxTokens : {None, Some(0), Some(256)},
     aiTemperature : {None}, aiTimeoutMs : {None}, noAiJsonMode : {None},
     aiSystemPrompt : {None}, aiSystemPromptFile : {None}, aiFileLimit : {None},
     aiAllowSensitive : {None, Some(FALSE)}]

\* what the group-commit process can end with
GroupCliResults ==
    { RunResult(0, "{\"command\":\"group-commit\",\"ok\":true,\"groups\":[]}\n", ""),
      RunResult(2, "{\"command\":\"group-commit\",\"ok\":false,\"errors\":[\"not a repository\"]}", ""),
      RunResult(2, "", "error: unexpected argument"),
      CliSpawnFailure }

\* lines 291-294: groupCommitPlan(repoPath, options)
GroupCommitPlan ==
    /\ cpc = "Handling"
    /\ request[1].tool = "groupCommitPlan"
    /\ spawned' = Append(spawned, buildGroupCommitArgs("plan", request[1].input.options))
    /\ \E raw \in GroupCliResults : wrapped' = Some(runCommittyJson(raw))
    /\ cpc' = "Wrapped"
    /\ UNCHANGED <<request, reply, child, promise, pureVars, orchVars>>

\* lines 296-302: groupCommitApply(repoPath, options)
GroupCommitApply ==
    /\ cpc = "Handling"
    /\ request[1].tool = "groupCommitApply"
    /\ spawned' = Append(spawned, buildGroupCommitArgs("apply", request[1].input.options))
    /\ \E raw \in GroupCliResults : wrapped' = Some(runCommittyJson(raw))
    /\ cpc' = "Wrapped"
    /\ UNCHANGED <<request, reply, child, promise, pureVars, orchVars>>

InitGroupCli ==
    /\ OrchIdle
    /\ PureIdle
    /\ request \in {Some([tool |-> t, input |-> [repo_path |-> "/repo", options |-> o]]) :
                      t \in {"groupCommitPlan", "groupCommitApply"}, o \in GroupCommitOptions}
    /\ cpc = "Handling"
    /\ spawned = <<>>
    /\ wrapped = None
    /\ reply = None
    /\ child = None
    /\ promise = None

NextGroupCli ==
    \/ GroupCommitPlan
    \/ GroupCommitApply

SpecGroupCli == InitGroupCli /\ [][NextGroupCli]_vars

----------------------------------------------------------------------------
(* Properties.  The repository's record of the run (calls, repoCommits) is *)
(* what the results are compared with.                                     *)

CallsOf(cmd) == {k \in 1..Len(calls) : calls[k].args[1] = cmd}

MutationCalls == CallsOf("add") \cup CallsOf("commit") \cup CallsOf("push")

FailedSteps == {k \in MutationCalls : calls[k].code # 0}

ApplyStates == {"Applying", "Committing", "Applied", "Returning", "AppliedDone"}

ExplicitlyAuthorized == opts.dryRun = Some(FALSE) /\ opts.confirm = Some(TRUE)

Range(q) == {q[k] : k \in 1..Len(q)}

\* the deduplicated merged change set of the repository
MergedSet ==
    IF ~repoValid THEN {}
    ELSE Range(repoStaged) \cup
         (IF opts.includeUnstaged = Some(FALSE) THEN {} ELSE Range(repoUnstaged))

PlanIsBuilt == pc \notin {"Enumerating", "Classifying"}

\* C1: no staging, commit or push happens, and the apply part is never entered,
\* unless dryRun is explicitly false and confirm is explicitly true.
C1_MutationOnlyWhenAuthorized ==
    (MutationCalls # {} \/ pc \in ApplyStates) => ExplicitlyAuthorized

\* a plan-only run that asked for push, staging and signoff with dryRun=false but
\* no confirm, over a non-empty plan
C1_Witness ==
    /\ pc = "PlanOnlyDone"
    /\ opts.dryRun = Some(FALSE)
    /\ opts.confirm = None
    /\ opts.push = Some(TRUE)
    /\ opts.autoStage = Some(TRUE)
    /\ opts.signoff = Some(TRUE)
    /\ Len(groups) >= 2

\* C2: once the plan is built, every file of the deduplicated merged change set is
\* in exactly one place of exactly one GroupPlan, and the plans hold nothing else.
C2_PlanPartitionsChangeSet ==
    PlanIsBuilt =>
        /\ \A f \in MergedSet :
              Cardinality({<<i, j>> \in (1..Len(groups)) \X (1..Len(all)) :
                              j <= Len(groups[i].files) /\ groups[i].files[j] = f}) = 1
        /\ \A i \in 1..Len(groups) : Range(groups[i].files) \subseteq MergedSet

\* a plan over a change set in which one file is both staged and unstaged
C2_Witness ==
    /\ PlanIsBuilt
    /\ repoValid
    /\ opts.includeUnstaged # Some(FALSE)
    /\ Range(repoStaged) \cap Range(repoUnstaged) # {}
    /\ Len(groups) >= 2
    /\ \E i \in 1..Len(groups) : Len(groups[i].files) >= 2

\* C3: when an apply run ends after one commit failed and another succeeded, the
\* result is not ok, has one error per failed step, and holds a failed record for
\* each failed commit and, for each commit made, an ok record with that commit's sha.
C3_FailureKeepsSuccess ==
    ( /\ pc = "AppliedDone"
      /\ \E k \in CallsOf("commit") : calls[k].code # 0
      /\ \E k \in CallsOf("commit") : calls[k].code = 0 ) =>
        LET r == result[1] IN
        /\ r.ok = FALSE
        /\ IsSome(r.errors)
        /\ Len(r.errors[1]) = Cardinality(FailedSteps)
        /\ IsSome(r.commits)
        /\ \A k \in CallsOf("commit") :
              \E i \in 1..Len(r.commits[1]) :
                 LET rec == r.commits[1][i] IN
                 /\ rec.message = calls[k].args[3]
                 /\ rec.ok = (calls[k].code = 0)
                 /\ calls[k].code # 0 => rec.sha = None /\ IsSome(rec.error)
        /\ \A c \in 1..Len(repoCommits) :
              \E i \in 1..Len(r.commits[1]) :
                 LET rec == r.commits[1][i] IN
                 /\ rec.message = repoCommits[c].message
                 /\ rec.ok
                 /\ rec.sha = Some(repoCommits[c].sha)

\* the first group's commit failed and a later one was made, and the other way round
C3_Witness ==
    /\ pc = "AppliedDone"
    /\ Len(commits) = 3
    /\ ~commits[1].ok /\ commits[2].ok /\ ~commits[3].ok
    /\ Cardinality({k \in CallsOf("commit") : calls[k].code # 0}) = 2
    /\ Len(repoCommits) = 1

\* C4: a result is ok exactly when the run was plan-only, or every commit record is
\* ok and a requested push succeeded; in an apply run, exactly when no error was
\* accumulated.
C4_OkIffNothingFailed ==
    IsSome(result) =>
        LET r == result[1] IN
        /\ r.ok = ( \/ ~ExplicitlyAuthorized
                    \/ /\ IsSome(r.commits)
                       /\ \A i \in 1..Len(r.commits[1]) : r.commits[1][i].ok
                       /\ \/ opts.push # Some(TRUE)
                          \/ \E k \in CallsOf("push") : calls[k].code = 0 )
        /\ ExplicitlyAuthorized => (r.ok = (FailedSteps = {}) /\ r.ok = (r.errors = None))

\* every commit of a three-group run was made and the requested push failed
C4_Witness ==
    /\ pc = "AppliedDone"
    /\ Len(commits) = 3
    /\ \A i \in 1..3 : commits[i].ok
    /\ \E k \in CallsOf("push") : calls[k].code # 0
    /\ ~result[1].ok

\* C5: when an apply run ends, the result's commits has one record per GroupPlan,
\* in plan order, the i-th carrying the i-th plan's name and suggested message,
\* whatever the outcome of that group's staging and commit.
C5_OneRecordPerPlan ==
    pc = "AppliedDone" =>
        LET r == result[1] IN
        /\ r.groups = groups
        /\ IsSome(r.commits)
        /\ Len(r.commits[1]) = Len(r.groups)
        /\ \A i \in 1..Len(r.groups) :
              /\ r.commits[1][i].group = r.groups[i].name
              /\ r.commits[1][i].message = r.groups[i].suggested_message

\* a three-group run with a staging failure, a commit failure and a commit made
C5_Witness ==
    /\ pc = "AppliedDone"
    /\ Len(groups) = 3
    /\ \E k \in CallsOf("add") : calls[k].code # 0
    /\ \E k \in CallsOf("commit") : calls[k].code # 0
    /\ Len(repoCommits) = 1

\* the git calls made for the i-th plan
AddCallsFor(i) == {k \in CallsOf("add") : calls[k].args = AddArgs(groups[i].files)}
CommitCallsFor(i) ==
    {k \in CallsOf("commit") : calls[k].args[3] = groups[i].suggested_message}

StagingFailed(i) == \E k \in AddCallsFor(i) : calls[k].code # 0

\* C6: with autoStage, a group whose staging failed gets no commit call and a
\* failed record carrying the staging error, which is also in errors; and when the
\* run ends every group was staged once and every staged group had its commit call.
C6_StagingFailureIsLocal ==
    (pc \in ApplyStates /\ opts.autoStage # Some(FALSE)) =>
        /\ \A i \in 1..Len(groups) :
              StagingFailed(i) =>
                 /\ CommitCallsFor(i) = {}
                 /\ Len(commits) >= i
                 /\ commits[i].group = groups[i].name
                 /\ commits[i].ok = FALSE
                 /\ commits[i].sha = None
                 /\ IsSome(commits[i].error)
                 /\ \E ar \in AddResults :
                       /\ ar.code # 0
                       /\ commits[i].error[1] =
                             "git add failed for group " \o groups[i].name \o ": " \o ar.stderr
                 /\ commits[i].error[1] \in Range(errors)
        /\ pc = "AppliedDone" =>
              \A i \in 1..Len(groups) :
                 /\ Cardinality(AddCallsFor(i)) = 1
                 /\ ~StagingFailed(i) => Cardinality(CommitCallsFor(i)) = 1

\* the first group's staging failed and both later groups were staged and committed
C6_Witness ==
    /\ pc = "AppliedDone"
    /\ Len(groups) = 3
    /\ StagingFailed(1)
    /\ Len(repoCommits) = 2

\* C7: at most one push is attempted; it is attempted only when push was requested,
\* after every group's record is in, as the last git call; and a finished apply run
\* has attempted it exactly when it was requested.
C7_PushOnceAfterAllGroups ==
    /\ Cardinality(CallsOf("push")) <= 1
    /\ \A k \in CallsOf("push") :
          /\ opts.push = Some(TRUE)
          /\ k = Len(calls)
          /\ Len(commits) = Len(groups)
          /\ gi > Len(groups)
    /\ pc = "AppliedDone" =>
          Cardinality(CallsOf("push")) = (IF opts.push = Some(TRUE) THEN 1 ELSE 0)

\* push was attempted after every one of several groups failed
C7_Witness ==
    /\ pc = "AppliedDone"
    /\ Len(groups) >= 2
    /\ \A i \in 1..Len(commits) : ~commits[i].ok
    /\ CallsOf("push") # {}

PushFailed == \E k \in CallsOf("push") : calls[k].code # 0

\* the final state of C8: what the result of a run whose push failed holds
C8_ResultAfterFailedPush ==
    (pc = "AppliedDone" /\ PushFailed) =>
        LET r == result[1] IN
        /\ r.pushed = Some(FALSE)
        /\ r.ok = FALSE
        /\ IsSome(r.errors)
        /\ Len(r.errors[1]) = Cardinality({i \in 1..Len(commits) : ~commits[i].ok}) + 1
        /\ \E pr \in PushResults :
              /\ pr.code # 0
              /\ r.errors[1][Len(r.errors[1])] = "git push failed: " \o pr.stderr
        /\ r.commits = Some(commits)
        /\ \A c \in 1..Len(repoCommits) :
              \E i \in 1..Len(commits) :
                 commits[i].ok /\ commits[i].sha = Some(repoCommits[c].sha)

\* C8: a failed push gives pushed=false, ok=false and one push error at the end of
\* errors, and neither the push nor the return changes any CommitRecord: the records
\* of the commits made stay ok with their sha.
C8_PushFailureLeavesCommits ==
    /\ []C8_ResultAfterFailedPush
    /\ [][(pc \in {"Applied", "Returning"}) => (commits' = commits)]_vars

\* a run in which a commit was made and the push then failed
C8_Witness ==
    /\ pc = "AppliedDone"
    /\ PushFailed
    /\ Len(repoCommits) >= 1
    /\ \E i \in 1..Len(commits) : ~commits[i].ok

GroupPosition(name) == CHOOSE k \in 1..7 :
    <<"docs", "tests", "ci", "deps", "build", "chore", "code">>[k] = name

\* C9: the plans come in the order docs, tests, ci, deps, build, chore, code,
\* each group at most once, and none with an empty files list.
C9_PlansInEnumerationOrder ==
    PlanIsBuilt =>
        /\ \A i, j \in 1..Len(groups) :
              i < j => GroupPosition(groups[i].name) < GroupPosition(groups[j].name)
        /\ \A i \in 1..Len(groups) : Len(groups[i].files) > 0

\* a plan of three or more groups whose files were met in another order than the
\* groups are emitted in
C9_Witness ==
    /\ PlanIsBuilt
    /\ Len(groups) >= 3
    /\ \E a, b \in 1..Len(all) :
          /\ a < b
          /\ GroupPosition(classifyFile(all[a])) > GroupPosition(classifyFile(all[b]))

\* C10: README.md, src/app.ts, .github/workflows/ci.yml and package-lock.json are
\* planned as docs, ci, deps and code, one file each, in that order.
C10_PlanOfTheFourFiles ==
    ( /\ PlanIsBuilt
      /\ Len(all) = 4
      /\ Range(all) = {"README.md", "src/app.ts", ".github/workflows/ci.yml",
                       "package-lock.json"} ) =>
        [i \in 1..Len(groups) |-> <<groups[i].name, groups[i].files>>] =
            << <<"docs", <<"README.md">> >>,
               <<"ci", <<".github/workflows/ci.yml">> >>,
               <<"deps", <<"package-lock.json">> >>,
               <<"code", <<"src/app.ts">> >> >>

\* what classifyFile returned for a path it was called on
ClassOf(file) == (CHOOSE e \in evals : e.arg = file).ret

Classified(file) == \E e \in evals : e.arg = file

\* C11: every path that begins with ".github/" is classified ci, whatever follows.
C11_GithubPrefixIsCi ==
    \A e \in evals : StartsWith(e.arg, ".github/") => e.ret = "ci"

\* C12: classifyFile("./" + x) equals classifyFile(x) for every path x.
C12_DotSlashIsNeutral ==
    (cpc = "Classify" /\ Classified(subject[1]) /\ Classified("./" \o subject[1])) =>
        ClassOf("./" \o subject[1]) = ClassOf(subject[1])

EnumerationFailed == \E k \in CallsOf("diff") : calls[k].code # 0

\* C13: when a `git diff` of the enumeration fails (non-zero exit or spawn failure),
\* no plan is built, no result is returned as a success, and no add, commit or
\* push is attempted.
C13_EnumerationFailureIsFatal ==
    EnumerationFailed =>
        /\ ~PlanIsBuilt
        /\ (IsSome(result) => ~result[1].ok)
        /\ MutationCalls = {}

\* C14: a result carries the pushed field only when push was requested.
C14_PushedOnlyWhenRequested ==
    IsSome(result) => (IsSome(result[1].pushed) => opts.push = Some(TRUE))

\* C15: every CommitRecord, during the run and in the result, has a sha and no
\* error exactly when it is ok, and an error and no sha exactly when it is not;
\* an ok record stands for a commit the repository holds.
C15_ShaXorError ==
    LET records == IF IsSome(result) /\ IsSome(result[1].commits)
                   THEN Range(commits) \cup Range(result[1].commits[1])
                   ELSE Range(commits)
    IN  \A rec \in records :
           /\ rec.ok = IsSome(rec.sha)
           /\ rec.ok = (rec.error = None)
           /\ rec.ok => \E c \in 1..Len(repoCommits) : repoCommits[c].sha = rec.sha[1]

\* a run that made a commit, then failed to stage a group, then failed a commit
C15_Witness ==
    /\ pc = "AppliedDone"
    /\ Len(commits) = 3
    /\ commits[1].ok
    /\ StagingFailed(2)
    /\ \E k \in CommitCallsFor(3) : calls[k].code # 0
    /\ result[1].commits = Some(commits)

PlanOnlyRequested ==
    opts.dryRun \in {None, Some(TRUE)} \/ opts.confirm \in {None, Some(FALSE)}

\* C16: a run with dryRun true (or left out) or confirm false (or left out) returns
\* ok=true with the plan built from the change set and no commits, pushed or
\* errors field, and runs no add, commit or push, whatever push, autoStage and
\* signoff are.
C16_PlanOnlyResultShape ==
    (PlanOnlyRequested /\ pc \notin {"Enumerating", "Classifying", "PlanBuilt"}) =>
        /\ pc = "PlanOnlyDone"
        /\ IsSome(result)
        /\ result[1].ok = TRUE
        /\ result[1].groups = groups
        /\ UNION {Range(result[1].groups[i].files) : i \in 1..Len(groups)} = MergedSet
        /\ result[1].commits = None
        /\ result[1].pushed = None
        /\ result[1].errors = None
        /\ MutationCalls = {}

\* dryRun=true overrides confirm=true: push, staging and signoff were all asked for
C16_Witness ==
    /\ pc = "PlanOnlyDone"
    /\ opts.dryRun = Some(TRUE)
    /\ opts.confirm = Some(TRUE)
    /\ opts.push = Some(TRUE)
    /\ opts.autoStage = Some(TRUE)
    /\ opts.signoff = Some(TRUE)
    /\ Len(result[1].groups) = 3

\* a scope, or a body, that is there to be printed: given and not empty
Given(o) == IsSome(o) /\ o[1] # ""

\* C17: the message is the type, "(scope)" only for a non-empty scope, "!" only
\* when breaking is true, ": " and the short text, then a blank line, the body and
\* a newline when there is a body and one newline when there is none; nothing is
\* trimmed or escaped, so its length is the sum of the parts; and the two worked
\* examples come out byte for byte.
C17_MessageLayout ==
    \A e \in evals :
       LET i == e.arg
           m == e.ret
           scopePart == IF Given(i.scope) THEN 2 + Len(i.scope[1]) ELSE 0
           bangPart  == IF i.breaking = Some(TRUE) THEN 1 ELSE 0
           headerLen == Len(i.commit_type) + scopePart + bangPart + 2 + Len(i.short)
       IN  /\ cpc = "Format"
           /\ SubSeq(m, 1, Len(i.commit_type)) = i.commit_type
           /\ Given(i.scope) =>
                 SubSeq(m, Len(i.commit_type) + 1, Len(i.commit_type) + scopePart)
                    = "(" \o i.scope[1] \o ")"
           /\ bangPart = 1 =>
                 SubSeq(m, Len(i.commit_type) + scopePart + 1,
                           Len(i.commit_type) + scopePart + 1) = "!"
           /\ SubSeq(m, Len(i.commit_type) + scopePart + bangPart + 1, headerLen)
                 = ": " \o i.short
           /\ SubSeq(m, headerLen + 1, Len(m))
                 = (IF Given(i.long) THEN "\n\n" \o i.long[1] \o "\n" ELSE "\n")
           /\ Len(m) = headerLen + (IF Given(i.long) THEN 3 + Len(i.long[1]) ELSE 1)
           /\ i = [commit_type |-> "feat", short |-> "add new API", scope |-> Some("core"),
                   long |-> Some("This introduces a new API."), breaking |-> Some(TRUE)]
                 => m = "feat(core)!: add new API\n\nThis introduces a new API.\n"
           /\ i = [commit_type |-> "docs", short |-> "update docs", scope |-> None,
                   long |-> None, breaking |-> None]
                 => m = "docs: update docs\n"

\* formatMessage was called with type, scope, breaking, short and body all given
C17_Witness ==
    /\ cpc = "Format"
    /\ \E e \in evals :
          /\ e.arg.commit_type = "feat"
          /\ e.arg.scope = Some("core")
          /\ e.arg.breaking = Some(TRUE)
          /\ e.arg.long = Some("This introduces a new API.")
          /\ e.arg.short = "add new API"
          /\ e.ret = "feat(core)!: add new API\n\nThis introduces a new API.\n"

\* the override field the caller passed for a group, if any
Supplied(name, field) ==
    IF opts.groupOverrides # None /\ name \in DOMAIN opts.groupOverrides[1]
    THEN opts.groupOverrides[1][name][field]
    ELSE None

TableType ==
    [docs |-> "docs", tests |-> "test", ci |-> "ci", deps |-> "chore",
     build |-> "build", chore |-> "chore", code |-> "chore"]

TableShort ==
    [docs |-> "update docs", tests |-> "update tests", ci |-> "update CI",
     deps |-> "update dependencies", build |-> "update build config",
     chore |-> "misc maintenance", code |-> "update code"]

\* C18: each plan's commit_type is the override's commit_type when one is given
\* (and not empty) for that group and the table default otherwise; its message is
\* formatMessage of that type, the override or table short, the override scope and
\* body, not breaking; a group without an override has its default plan.
C18_OverridesAndDefaults ==
    PlanIsBuilt =>
        \A i \in 1..Len(groups) :
           LET g     == groups[i]
               type  == IF Given(Supplied(g.name, "commit_type"))
                        THEN Supplied(g.name, "commit_type")[1] ELSE TableType[g.name]
               short == IF Given(Supplied(g.name, "short"))
                        THEN Supplied(g.name, "short")[1] ELSE TableShort[g.name]
           IN  /\ g.commit_type = type
               /\ g.suggested_message =
                     formatMessage([commit_type |-> type, short |-> short,
                                    scope |-> Supplied(g.name, "scope"),
                                    long |-> Supplied(g.name, "long"),
                                    breaking |-> Some(FALSE)])
               /\ (opts.groupOverrides = None \/ g.name \notin DOMAIN opts.groupOverrides[1])
                     => g.suggested_message =
                           TableType[g.name] \o ": " \o TableShort[g.name] \o "\n"

\* a plan with an overridden docs group next to a group that has no override
C18_Witness ==
    /\ PlanIsBuilt
    /\ opts.groupOverrides # None
    /\ Len(groups) >= 2
    /\ groups[1].name = "docs"
    /\ groups[1].commit_type = "feat"
    /\ groups[1].suggested_message = "feat(guide): update docs\n"
    /\ groups[2].name \notin DOMAIN opts.groupOverrides[1]

\* C19: with confirm_push false the mcp0_apply_tag handler spawns no committy
\* process and replies with the refusal text; it replies with anything else only
\* after one `committy tag` process (not a dry run) was spawned, which happens
\* only with confirm_push true.
C19_ApplyTagNeedsConfirmPush ==
    LET input == request[1].input IN
    /\ ~input.confirm_push =>
          /\ spawned = <<>>
          /\ wrapped = None
          /\ cpc = "Replied" => reply = Some([text |-> RefusalText])
    /\ input.confirm_push =>
          /\ cpc = "Replied" =>
                /\ Len(spawned) = 1
                /\ spawned[1][2] = "tag"
                /\ "--dry-run" \notin Range(spawned[1])
                /\ reply # Some([text |-> RefusalText])
          /\ Len(spawned) <= 1

\* a refused call that named a tag and asked for fetch and file bumps
C19_Witness ==
    /\ cpc = "Replied"
    /\ ~request[1].input.confirm_push
    /\ request[1].input.name = Some("v1.2.3")
    /\ request[1].input.fetch = Some(TRUE)
    /\ request[1].input.bump_files = Some(TRUE)
    /\ reply = Some([text |-> RefusalText])
    /\ spawned = <<>>

\* the outputs among CliStdouts that are JSON texts
ValidJsonStdouts ==
    { "{\"command\":\"apply-tag\",\"source\":\"/repo\",\"name\":\"v1.2.3\",\"pushed\":true}",
      "{ \"ok\": false, \"errors\": [\"tag exists\", 2] }\n",
      "null" }

\* the outputs with nothing in them but whitespace
BlankStdouts == {"", " \n"}

\* C20: a wrapper call is ok exactly when the exit code is 0 and stdout is blank
\* or a JSON text; it has a result exactly when stdout is a (non-blank) JSON text;
\* raw is what the process ended with.
C20_WrapperOkAndResult ==
    IsSome(wrapped) =>
        LET w == wrapped[1] IN
        /\ w.raw \in CliResults
        /\ w.ok = (w.raw.code = 0 /\ w.raw.stdout \in (BlankStdouts \cup ValidJsonStdouts))
        /\ IsSome(w.result) = (w.raw.stdout \in ValidJsonStdouts)

\* the process printed a JSON text and exited non-zero: parsed result, not ok
C20_Witness ==
    /\ IsSome(wrapped)
    /\ wrapped[1].raw.code = 2
    /\ wrapped[1].raw.stdout = "{ \"ok\": false, \"errors\": [\"tag exists\", 2] }\n"
    /\ wrapped[1].result = Some("{\"ok\":false,\"errors\":[\"tag exists\",2]}")
    /\ ~wrapped[1].ok

\* the committy binary could not be spawned
SpawnFailed == IsSome(child) /\ child[1].failed

\* the `error` event was delivered before the `close` event
ErrorFirst == SpawnFailed /\ child[1].delivered # <<>> /\ child[1].delivered[1] = "error"

RecognizableSpawnFailure(w) ==
    /\ ~w.ok
    /\ w.raw.code = 127
    /\ Contains(w.raw.stderr, "Failed to spawn committy binary")

CodesOf(cmd) == {calls[k].code : k \in CallsOf(cmd)}

\* C22: once the enumeration has returned, the run ends by returning a result;
\* an apply run returns ok, groups, one record per plan, pushed and errors, for
\* every outcome of the add, commit and push calls (exit 0, non-zero exit,
\* spawn failure as code 127).
C22_AlwaysReturnsCompleteResult ==
    /\ (pc = "Classifying") ~> (pc \in {"PlanOnlyDone", "AppliedDone"} /\ IsSome(result))
    /\ (pc = "Applying") ~> (pc = "AppliedDone")
    /\ [](pc = "AppliedDone" =>
            /\ IsSome(result)
            /\ result[1].groups = groups
            /\ IsSome(result[1].commits)
            /\ Len(result[1].commits[1]) = Len(groups)
            /\ IsSome(result[1].pushed)
            /\ result[1].ok = (result[1].errors = None))

\* an apply run that returned after a spawn failure of each of add, commit and push
C22_Witness ==
    /\ pc = "AppliedDone"
    /\ repoValid
    /\ 127 \in CodesOf("add")
    /\ 127 \in CodesOf("commit")
    /\ 127 \in CodesOf("push")
    /\ 0 \in CodesOf("commit")
    /\ Len(result[1].commits[1]) = 3
    /\ result[1].pushed = Some(FALSE)

\* the n-th committy invocation carries the flag
Passes(n, flag) == \E k \in 1..Len(spawned[n]) : spawned[n][k] = flag

\* C23: groupCommitPlan invokes the CLI with "--mode plan" and with neither
\* --auto-stage nor --push, whatever its options; groupCommitApply invokes it
\* with "--mode apply", with --auto-stage exactly when autoStage is true and
\* with --push exactly when push is true.
C23_PlanNeverMutates ==
    spawned # <<>> =>
        LET o == request[1].input.options IN
        /\ Len(spawned) = 1
        /\ request[1].tool = "groupCommitPlan" =>
              /\ SubSeq(spawned[1], 1, 6) =
                    <<"--non-interactive", "group-commit", "--mode", "plan", "--output", "json">>
              /\ ~Passes(1, "--auto-stage")
              /\ ~Passes(1, "--push")
              /\ ~Passes(1, "apply")
        /\ request[1].tool = "groupCommitApply" =>
              /\ SubSeq(spawned[1], 1, 6) =
                    <<"--non-interactive", "group-commit", "--mode", "apply", "--output", "json">>
              /\ Passes(1, "--auto-stage") = (o.autoStage = Some(TRUE))
              /\ Passes(1, "--push") = (o.push = Some(TRUE))

\* groupCommitPlan was handed autoStage and push set and ran the CLI
C23_Witness ==
    /\ IsSome(request)
    /\ request[1].tool = "groupCommitPlan"
    /\ request[1].input.options.autoStage = Some(TRUE)
    /\ request[1].input.options.push = Some(TRUE)
    /\ request[1].input.options.ai = Some(TRUE)
    /\ spawned = << <<"--non-interactive", "group-commit", "--mode", "plan", "--output", "json",
                      "--ai", "--ai-max-tokens", "0">> >>
    /\ IsSome(wrapped)

\* the add and commit calls made for the i-th plan
CallsFor(i) == AddCallsFor(i) \cup CommitCallsFor(i)

\* C24: in an apply run every call for a plan precedes every call for the next
\* plans, the add call of a plan precedes its commit call, and a plan gets at
\* most one add call and at most one commit call; every add or commit call
\* belongs to a plan.
C24_GroupsStrictlySequential ==
    pc \in ApplyStates =>
        /\ \A i \in 1..Len(groups) :
              /\ Cardinality(AddCallsFor(i)) <= 1
              /\ Cardinality(CommitCallsFor(i)) <= 1
              /\ \A a \in AddCallsFor(i), c \in CommitCallsFor(i) : a < c
        /\ \A i, j \in 1..Len(groups) :
              i < j => \A k \in CallsFor(i), l \in CallsFor(j) : k < l
        /\ \A k \in CallsOf("add") \cup CallsOf("commit") :
              \E i \in 1..Len(groups) : k \in CallsFor(i)
        /\ \A i \in 1..Len(groups) : i > gi => CallsFor(i) = {}

\* three plans: the first staged and committed, the second failed to stage, the
\* third staged and failed to commit, each called once and in plan order
C24_Witness ==
    /\ pc = "AppliedDone"
    /\ Len(groups) = 3
    /\ [k \in 1..Len(calls) |-> <<calls[k].args[1], calls[k].code>>] =
          << <<"diff", 0>>, <<"diff", 0>>, <<"add", 0>>, <<"commit", 0>>, <<"rev-parse", 0>>,
             <<"add", 128>>, <<"add", 0>>, <<"commit", 1>> >>
    /\ AddCallsFor(1) = {3} /\ CommitCallsFor(1) = {4}
    /\ AddCallsFor(2) = {6} /\ CommitCallsFor(2) = {}
    /\ AddCallsFor(3) = {7} /\ CommitCallsFor(3) = {8}

\* the path without a leading "./"
SlashStripped(file) == IF StartsWith(file, "./") THEN From(file, 3) ELSE file

RuleOrder == <<"ci", "docs", "tests", "deps", "build", "chore">>

\* the path satisfies the condition of the rule
RuleMatches(rule, f) ==
    CASE rule = "ci" -> IsCi(f)
      [] rule = "docs" -> IsDocs(f)
      [] rule = "tests" -> IsTests(f)
      [] rule = "deps" -> IsDeps(f)
      [] rule = "build" -> IsBuild(f)
      [] rule = "chore" -> IsChore(f)

\* the first rule of the order that the path matches, code when none does
EarliestRule(f) ==
    IF \E k \in 1..Len(RuleOrder) : RuleMatches(RuleOrder[k], f)
    THEN RuleOrder[CHOOSE k \in 1..Len(RuleOrder) :
                      /\ RuleMatches(RuleOrder[k], f)
                      /\ \A j \in 1..(k - 1) : ~RuleMatches(RuleOrder[j], f)]
    ELSE "code"

\* the rules whose condition the path satisfies
RulesMatching(f) == {k \in 1..Len(RuleOrder) : RuleMatches(RuleOrder[k], f)}

\* C25: for a path that matches more than one rule, classifyFile returns the
\* earliest of them in the order ci, docs, tests, deps, build, chore, code; a
\* markdown file under tests/ is docs, a test-named file under docs/ is docs, a
\* lockfile under tests/ is tests and a build manifest under tests/ is tests.
C25_EarliestRuleDecides ==
    /\ \A e \in evals :
          Cardinality(RulesMatching(SlashStripped(e.arg))) > 1 =>
              e.ret = EarliestRule(SlashStripped(e.arg))
    /\ Classified("tests/README.md") => ClassOf("tests/README.md") = "docs"
    /\ Classified("docs/app.test.ts") => ClassOf("docs/app.test.ts") = "docs"
    /\ Classified("tests/package-lock.json") => ClassOf("tests/package-lock.json") = "tests"
    /\ Classified("tests/Cargo.toml") => ClassOf("tests/Cargo.toml") = "tests"

\* the test-file suffixes and the documentation names and extensions, as spelled
TestSuffixes == {".test.js", ".test.ts", ".spec.js", ".spec.ts", "_test.rs"}
DocExtensions == {".md", ".mdx"}

\* the path ends, letter for letter, with one of the suffixes
EndsExactly(f, suffixes) == \E x \in suffixes : EndsWith(f, x)

\* the path ends with one of the suffixes when letter case is ignored
EndsIgnoringCase(f, suffixes) == \E x \in suffixes : EndsWith(LowerStr(f), x)

\* a path is classified into a group other than docs only by text that matches
\* the rule letter for letter
CaseSensitiveOutsideDocs(e) ==
    LET f == StripLeading(e.arg) IN
    /\ e.ret = "ci" => StartsWith(f, ".github/")
    /\ e.ret = "tests" => (StartsWith(f, "tests/") \/ EndsExactly(f, TestSuffixes))
    /\ e.ret = "deps" => IsDeps(f)
    /\ e.ret = "build" => IsBuild(f)
    /\ e.ret = "chore" => IsChore(f)
    /\ e.ret = "docs" => (StartsWith(f, "docs/") \/ EndsIgnoringCase(f, DocExtensions))

\* C26 as stated: only the documentation name and extension checks ignore letter
\* case, so a path whose test suffix is spelled in another case is not tests.
C26_OnlyDocsIgnoresCase ==
    \A e \in evals : CaseSensitiveOutsideDocs(e)

\* C26 (amended): the documentation name and extension checks and the test
\* suffix checks ignore letter case, every other check (the directory prefixes
\* .github/, docs/, tests/, .vscode/ and the deps, build and chore names) is
\* letter for letter; so APP.TEST.JS is tests, PACKAGE-LOCK.JSON is not deps.
C26_DocsAndTestSuffixIgnoreCase ==
    \A e \in evals :
        LET f == StripLeading(e.arg) IN
        /\ e.ret = "ci" => StartsWith(f, ".github/")
        /\ e.ret = "docs" => (StartsWith(f, "docs/") \/ EndsIgnoringCase(f, DocExtensions))
        /\ e.ret = "tests" => (StartsWith(f, "tests/") \/ EndsIgnoringCase(f, TestSuffixes))
        /\ e.ret = "deps" =>
              \E name \in {"package-lock.json", "npm-shrinkwrap.json", "pnpm-lock.yaml",
                           "yarn.lock", "Cargo.lock"} : BasenameIs(f, name)
        /\ e.ret = "build" => IsBuild(f)
        /\ e.ret = "chore" => IsChore(f)
        /\ (EndsIgnoringCase(f, DocExtensions) /\ ~StartsWith(f, ".github/")) => e.ret = "docs"
        /\ (EndsIgnoringCase(f, TestSuffixes) /\ ~StartsWith(f, ".github/")
              /\ ~StartsWith(f, "docs/")) => e.ret = "tests"
        /\ e.arg \in {d \o n : d \in {"", "src/", "DOCS/", "Tests/"},
                               n \in {"PACKAGE-LOCK.JSON", "cargo.toml", ".GITIGNORE",
                                      "main.rs"}} => e.ret = "code"

\* upper-cased test suffixes are tests, an upper-cased markdown extension is
\* docs, an upper-cased lockfile, dotfile or directory name is code
C26_Witness ==
    \/ /\ subject = Some("src/APP.TEST.JS")
       /\ \E e \in evals : e.arg = "src/APP.TEST.JS" /\ e.ret = "tests"
       /\ \E e \in evals : e.arg = "./src/APP.TEST.JS" /\ e.ret = "tests"
    \/ /\ subject = Some("Tests/PACKAGE-LOCK.JSON")
       /\ \E e \in evals : e.arg = "Tests/PACKAGE-LOCK.JSON" /\ e.ret = "code"
       /\ \E e \in evals : e.arg = "./Tests/PACKAGE-LOCK.JSON" /\ e.ret = "code"

\* C27: every path under .vscode/ and every .gitignore, .editorconfig or .npmrc,
\* at the root or in a subdirectory, is classified chore, unless one of the
\* rules ci, docs, tests, deps, build matches the path.
C27_ChoreForEditorAndDotfiles ==
    \A e \in evals :
        LET f == SlashStripped(e.arg) IN
        ( /\ \/ StartsWith(f, ".vscode/")
             \/ \E name \in {".gitignore", ".editorconfig", ".npmrc"} : BasenameIs(f, name)
          /\ \A k \in 1..5 : ~RuleMatches(RuleOrder[k], f) )
        => e.ret = "chore"

\* C28: in an apply run with autoStage every commit made holds exactly the
\* files of the plan whose message it carries, whatever was staged before the
\* run and whatever an earlier failed commit left staged.
C28_CommitHoldsOwnGroupOnly ==
    (pc \in ApplyStates /\ opts.autoStage # Some(FALSE)) =>
        \A c \in 1..Len(repoCommits) :
            \E i \in 1..Len(groups) :
               /\ groups[i].suggested_message = repoCommits[c].message
               /\ Range(repoCommits[c].files) = Range(groups[i].files)

\* the records of the groups that failed, in plan order
FailedRecords == SelectSeq(commits, LAMBDA rec : ~rec.ok)

\* the error string names the group as one of its two failures does
ErrorOfGroup(err, name) ==
    \/ StartsWith(err, "git add failed for group " \o name \o ": ")
    \/ StartsWith(err, "commit failed for group " \o name \o ": ")

\* C29: in an apply run the error strings are one per failed record, in the
\* order of the records and each naming its record's group, followed by one
\* more when a push was requested and failed; a group whose record is ok has none.
C29_OneErrorPerFailure ==
    pc \in ApplyStates =>
        /\ Len(errors) = Len(FailedRecords) + (IF PushFailed THEN 1 ELSE 0)
        /\ \A k \in 1..Len(FailedRecords) : ErrorOfGroup(errors[k], FailedRecords[k].group)
        /\ PushFailed => StartsWith(errors[Len(errors)], "git push failed: ")
        /\ \A i \in 1..Len(commits) :
              commits[i].ok => \A k \in 1..Len(errors) : ~ErrorOfGroup(errors[k], commits[i].group)
        /\ pc = "AppliedDone" =>
              result[1].errors = (IF Len(errors) > 0 THEN Some(errors) ELSE None)

\* a staging failure, a commit made, a commit failure and a failed push: three errors
C29_Witness ==
    /\ pc = "AppliedDone"
    /\ Len(commits) = 3
    /\ StagingFailed(1)
    /\ commits[2].ok
    /\ ~commits[3].ok /\ CommitCallsFor(3) # {}
    /\ opts.push = Some(TRUE) /\ PushFailed
    /\ Len(result[1].errors[1]) = 3

\* the messages of the commit calls, in call order
RECURSIVE CommitMessages(_)
CommitMessages(n) ==
    IF n = 0 THEN <<>>
    ELSE IF calls[n].args[1] = "commit" THEN Append(CommitMessages(n - 1), calls[n].args[3])
    ELSE CommitMessages(n - 1)

\* C30: in an apply run with autoStage=false there is no `git add` call, and the
\* commit calls are those of the plans handled so far, one each, in plan order;
\* at the end one for every plan.
C30_NoStagingWithoutAutoStage ==
    (pc \in ApplyStates /\ opts.autoStage = Some(FALSE)) =>
        /\ CallsOf("add") = {}
        /\ CommitMessages(Len(calls)) =
              [i \in 1..Len(commits) |-> groups[i].suggested_message]
        /\ pc \in {"Applied", "Returning", "AppliedDone"} => Len(commits) = Len(groups)

\* without staging, the first plan's commit took the staged files and the other
\* two plans had their commit attempted and failed
C30_Witness ==
    /\ pc = "AppliedDone"
    /\ opts.autoStage = Some(FALSE)
    /\ Len(groups) = 3
    /\ CallsOf("add") = {}
    /\ Cardinality(CallsOf("commit")) = 3
    /\ commits[1].ok /\ ~commits[2].ok /\ ~commits[3].ok
    /\ Len(repoCommits) = 1

====
